---- MODULE Spec2Model ----
(***************************************************************************)
(* ArduinoAssess: the adaptive estimation and question-scheduling engine   *)
(* (server/lib/adaptive.ts), the bank lookup (server/db/client.ts) and the *)
(* submit turn of the assessment route (server/routes/assessment.ts).      *)
(*                                                                         *)
(* Bounds are JavaScript numbers with one decimal (d - 0.3, d + 1.5, ...). *)
(* They are modelled in fixed point: one difficulty level is Scale units,  *)
(* so 0.1 is two units and the average of two bounds is a whole number of  *)
(* units.  Arithmetic is exact decimal arithmetic; binary rounding of the  *)
(* doubles is not modelled.                                                *)
(***************************************************************************)
EXTENDS Integers, Sequences, FiniteSets, TLC

VARIABLES
    profile,            \* the in-memory StudentProfile of the engine
    last,               \* the last updateBounds call: its response and the DimensionState before it
    started,            \* POST /start has created the session rows
    assessment,         \* row of assessment_sessions
    dimensionStates,    \* rows of dimension_states, by dimension
    questionResponses,  \* rows of question_responses (their question ids, in insertion order)
    nextAiId,           \* ids handed out so far by the generator (randomUUID)
    lateSubmits,        \* submits processed after the session was marked complete
    verdictChanges,     \* turns whose evaluation differs from that of the turn before
    presented,          \* ids of the questions sent to the client, in order
    turn,               \* what the last submit turn computed (shouldComplete, exclusion list, lookup result)
    requests,           \* POST /submit requests in flight: position in the handler and its local variables
    hintEvents          \* rows of hint_events, in insertion order

vars == <<profile, last, started, assessment, dimensionStates, questionResponses,
          nextAiId, lateSubmits, verdictChanges, presented, turn, requests,
          hintEvents>>

-----------------------------------------------------------------------------
(* Bounds of the model *)

\* updateBounds calls per behaviour of SpecBounds
MaxUpdates == 5
\* bank questions per dimension and difficulty tier
BankPerTier == 1
\* submits accepted after completion in Spec
MaxLateSubmits == 1
\* changes of evaluation from one turn to the next along a session of Spec
MaxVerdictChanges == 2
\* POST /submit requests of SpecTurns, each running the handler step by step
MaxRequests == 2
\* levels below 1 and above 5 that the difficulty of a stored question takes in SpecOutcomes
MaxDifficultyExcess == 1
\* hint events given to analyzeHintBehavior in SpecHints
MaxHintEvents == 3
\* POST /hint requests of a session in SpecHintTurns
MaxHintRequests == 1

-----------------------------------------------------------------------------
(* Numbers *)

Scale == 2 * 10

Tenths(n) == (n * Scale) \div 10

Max(a, b) == IF a >= b THEN a ELSE b

Min(a, b) == IF a <= b THEN a ELSE b

\* Math.round that sends a half to the level below
RoundHalfDown(x) == (2 * x + Scale - 1) \div (2 * Scale)

\* Math.round on a fixed-point value: nearest level, halves up
Round(x) == (2 * x + Scale) \div (2 * Scale)

-----------------------------------------------------------------------------
(* Data model *)

DIMENSIONS == <<"lowLevelBinary", "controlFlow", "hardwareIO", "codeReading", "decomposition">>

Dimension == {DIMENSIONS[i] : i \in 1..Len(DIMENSIONS)}

DifficultyLevel == 1..5

CONVERGENCE_THRESHOLD == Scale \div 2

MIN_QUESTIONS_PER_DIMENSION == 3

EXPLORATION_QUESTIONS_MIN == 5

HARD_STOP == 25

\* an evaluation {correct, partial}: the evaluator may set both flags
Evaluations == [correct : BOOLEAN, partial : BOOLEAN]

initialDimState ==
    [lowerBound |-> 1 * Scale, upperBound |-> 5 * Scale, tested |-> FALSE,
     questionCount |-> 0, correctCount |-> 0]

createStudentProfile ==
    [currentPhase |-> "exploration",
     questionsAnswered |-> 0,
     totalTimeMs |-> 0,
     hintsUsed |-> 0,
     partialCredits |-> 0,
     dimensions |-> [dim \in Dimension |-> initialDimState]]

-----------------------------------------------------------------------------
(* updateBounds *)

\* currentAccuracy > n/10, with currentAccuracy = correctCount/questionCount, or 0.5 with no question
accuracyAbove(dimState, n) ==
    IF dimState.questionCount > 0
    THEN 10 * dimState.correctCount > n * dimState.questionCount
    ELSE 5 > n

\* currentAccuracy < n/10
accuracyBelow(dimState, n) ==
    IF dimState.questionCount > 0
    THEN 10 * dimState.correctCount < n * dimState.questionCount
    ELSE 5 < n

\* countAnswer with correctCount++ also on partial credit
countAnswerPartialCounted(dimState, response) ==
    [dimState EXCEPT !.tested = TRUE,
                     !.questionCount = @ + 1,
                     !.correctCount = IF response.correct \/ response.partial
                                      THEN @ + 1 ELSE @]

\* dimState.tested = true; questionCount++; correctCount++ on a correct answer
countAnswer(dimState, response) ==
    [dimState EXCEPT !.tested = TRUE,
                     !.questionCount = @ + 1,
                     !.correctCount = IF response.correct THEN @ + 1 ELSE @]

\* applyCorrect with the lower bound raised to d - 0.8 instead of d - 0.3
applyCorrectWideMargin(dimState, before, difficulty) ==
    LET newLowerBound == Max(dimState.lowerBound, difficulty * Scale - Tenths(8))
        lower == Max(1 * Scale, Min(5 * Scale, newLowerBound))
        newUpperBound == Min(5 * Scale, difficulty * Scale + Tenths(15))
    IN  [dimState EXCEPT
            !.lowerBound = lower,
            !.upperBound = IF 10 * before.correctCount > 6 * before.questionCount
                              \/ before.questionCount = 0
                           THEN Max(dimState.upperBound, newUpperBound)
                           ELSE dimState.upperBound]

\* applyCorrect raising upperBound whatever the accuracy
applyCorrectAnyAccuracy(dimState, before, difficulty) ==
    LET newLowerBound == Max(dimState.lowerBound, difficulty * Scale - Tenths(3))
        lower == Max(1 * Scale, Min(5 * Scale, newLowerBound))
        newUpperBound == Min(5 * Scale, difficulty * Scale + Tenths(15))
    IN  [dimState EXCEPT
            !.lowerBound = lower,
            !.upperBound = Max(dimState.upperBound, newUpperBound)]

\* applyCorrect with the accuracy read after the answer was counted
applyCorrectCountedAccuracy(dimState, before, difficulty) ==
    LET newLowerBound == Max(dimState.lowerBound, difficulty * Scale - Tenths(3))
        lower == Max(1 * Scale, Min(5 * Scale, newLowerBound))
        newUpperBound == Min(5 * Scale, difficulty * Scale + Tenths(15))
    IN  [dimState EXCEPT
            !.lowerBound = lower,
            !.upperBound = IF accuracyAbove(dimState, 6)
                           THEN Max(dimState.upperBound, newUpperBound)
                           ELSE dimState.upperBound]

\* the rule for a correct answer; before is the state the accuracy is read from
applyCorrect(dimState, before, difficulty) ==
    LET newLowerBound == Max(dimState.lowerBound, difficulty * Scale - Tenths(3))
        lower == Max(1 * Scale, Min(5 * Scale, newLowerBound))
        newUpperBound == Min(5 * Scale, difficulty * Scale + Tenths(15))
    IN  [dimState EXCEPT
            !.lowerBound = lower,
            !.upperBound = IF accuracyAbove(before, 6)
                           THEN Max(dimState.upperBound, newUpperBound)
                           ELSE dimState.upperBound]

\* applyPartial with upperBound set to d + 0.5 without the minimum with the old upperBound
applyPartialUncapped(dimState, difficulty) ==
    LET partialLevel == difficulty * Scale - Tenths(5)
    IN  [dimState EXCEPT
            !.lowerBound = Max(dimState.lowerBound, Max(1 * Scale, (partialLevel * 8) \div 10)),
            !.upperBound = Min(5 * Scale, difficulty * Scale + Tenths(5))]

\* the rule for partial credit
applyPartial(dimState, difficulty) ==
    LET partialLevel == difficulty * Scale - Tenths(5)
    IN  [dimState EXCEPT
            !.lowerBound = Max(dimState.lowerBound, Max(1 * Scale, (partialLevel * 8) \div 10)),
            !.upperBound = Min(dimState.upperBound, Min(5 * Scale, difficulty * Scale + Tenths(5)))]

\* the lenient branch is taken with accuracy > 0.7 and at least 3 questions (this one counted)
isLenient(dimState, before) ==
    accuracyAbove(before, 7) /\ dimState.questionCount >= 3

\* applyWrong with upperBound set to the new cap without the minimum with the old
\* upperBound
applyWrongUncapped(dimState, before, difficulty) ==
    IF isLenient(dimState, before)
    THEN LET newUpper == Max(dimState.lowerBound + Tenths(3), difficulty * Scale - Tenths(5))
         IN  [dimState EXCEPT !.upperBound = newUpper]
    ELSE LET newUpper == Max(dimState.lowerBound, difficulty * Scale - Tenths(5))
             newLowerBound == Max(1 * Scale, difficulty * Scale - Tenths(15))
         IN  [dimState EXCEPT
                 !.upperBound = newUpper,
                 !.lowerBound = IF accuracyBelow(before, 4)
                                THEN Min(dimState.lowerBound, newLowerBound)
                                ELSE dimState.lowerBound]

\* applyWrong with lowerBound set to d - 1.5 on the low-accuracy path, without the
\* minimum with the old lowerBound
applyWrongNoMin(dimState, before, difficulty) ==
    IF isLenient(dimState, before)
    THEN LET newUpper == Max(dimState.lowerBound + Tenths(3), difficulty * Scale - Tenths(5))
         IN  [dimState EXCEPT !.upperBound = Min(dimState.upperBound, newUpper)]
    ELSE LET newUpper == Max(dimState.lowerBound, difficulty * Scale - Tenths(5))
             newLowerBound == Max(1 * Scale, difficulty * Scale - Tenths(15))
         IN  [dimState EXCEPT
                 !.upperBound = Min(dimState.upperBound, newUpper),
                 !.lowerBound = IF accuracyBelow(before, 4)
                                THEN newLowerBound
                                ELSE dimState.lowerBound]

\* the rule for a wrong answer
applyWrong(dimState, before, difficulty) ==
    IF isLenient(dimState, before)
    THEN LET newUpper == Max(dimState.lowerBound + Tenths(3), difficulty * Scale - Tenths(5))
         IN  [dimState EXCEPT !.upperBound = Min(dimState.upperBound, newUpper)]
    ELSE LET newUpper == Max(dimState.lowerBound, difficulty * Scale - Tenths(5))
             newLowerBound == Max(1 * Scale, difficulty * Scale - Tenths(15))
         IN  [dimState EXCEPT
                 !.upperBound = Min(dimState.upperBound, newUpper),
                 !.lowerBound = IF accuracyBelow(before, 4)
                                THEN Min(dimState.lowerBound, newLowerBound)
                                ELSE dimState.lowerBound]

\* the if / else if / else over response.correct and response.partial
applyVerdict(dimState, before, response) ==
    IF response.correct THEN applyCorrect(dimState, before, response.difficulty)
    ELSE IF response.partial THEN applyPartial(dimState, response.difficulty)
    ELSE applyWrong(dimState, before, response.difficulty)

\* "Ensure bounds stay valid"
clampBounds(dimState) ==
    [dimState EXCEPT !.lowerBound = Max(1 * Scale, Min(5 * Scale, dimState.lowerBound)),
                     !.upperBound = Max(1 * Scale, Min(5 * Scale, dimState.upperBound))]

\* updateBounds without the "Ensure lower <= upper" step
resolveInversionSkipped(dimState, response) == dimState

\* "Ensure lower <= upper" setting the moved bound to the average of the two
resolveInversionToAverage(dimState, response) ==
    IF dimState.lowerBound > dimState.upperBound
    THEN LET avg == (dimState.lowerBound + dimState.upperBound) \div 2
         IN  IF response.correct
             THEN [dimState EXCEPT !.upperBound = avg]
             ELSE [dimState EXCEPT !.lowerBound = avg]
    ELSE dimState

\* "Ensure lower <= upper"
resolveInversion(dimState, response) ==
    IF dimState.lowerBound > dimState.upperBound
    THEN LET avg == (dimState.lowerBound + dimState.upperBound) \div 2
         IN  IF response.correct
             THEN [dimState EXCEPT !.upperBound = Max(dimState.lowerBound, avg)]
             ELSE [dimState EXCEPT !.lowerBound = Min(dimState.upperBound, avg)]
    ELSE dimState

\* updateBounds on the DimensionState of response.dimension
updateDimState(before, response) ==
    resolveInversion(
        clampBounds(applyVerdict(countAnswer(before, response), before, response)),
        response)

\* the Profile object passed to updateBounds, as it is after the call: dimState is a
\* reference to profile.dimensions[response.dimension] and is written through, and the
\* returned object is a shallow copy that shares the dimensions with the argument
updateBoundsArgument(p, response) ==
    [p EXCEPT !.dimensions[response.dimension] = updateDimState(@, response)]

\* updateBounds that also counts the answer in the session
updateBoundsCountingTurn(p, response) ==
    [p EXCEPT !.dimensions[response.dimension] = updateDimState(@, response),
              !.questionsAnswered = @ + 1]

updateBounds(p, response) ==
    [p EXCEPT !.dimensions[response.dimension] = updateDimState(@, response)]

-----------------------------------------------------------------------------
(* determinePhase, shouldCompleteAssessment, calculateConfidence *)

range(dimState) == dimState.upperBound - dimState.lowerBound

\* determinePhase whose convergence test ignores questionCount
determinePhaseRangeOnly(p) ==
    IF p.questionsAnswered < EXPLORATION_QUESTIONS_MIN THEN "exploration"
    ELSE IF ~(\A dim \in Dimension : p.dimensions[dim].tested) THEN "exploration"
    ELSE IF \A dim \in Dimension : range(p.dimensions[dim]) <= CONVERGENCE_THRESHOLD
         THEN "completion"
    ELSE "refinement"

determinePhase(p) ==
    IF p.questionsAnswered < EXPLORATION_QUESTIONS_MIN THEN "exploration"
    ELSE IF ~(\A dim \in Dimension : p.dimensions[dim].tested) THEN "exploration"
    ELSE IF \A dim \in Dimension :
                /\ range(p.dimensions[dim]) <= CONVERGENCE_THRESHOLD
                /\ p.dimensions[dim].questionCount >= MIN_QUESTIONS_PER_DIMENSION
         THEN "completion"
    ELSE "refinement"

\* shouldCompleteAssessment without the hard stop
shouldCompleteNoHardStop(p) ==
    IF p.currentPhase = "completion" THEN TRUE
    ELSE /\ \A dim \in Dimension : range(p.dimensions[dim]) <= CONVERGENCE_THRESHOLD
         /\ p.questionsAnswered >=
                EXPLORATION_QUESTIONS_MIN + Len(DIMENSIONS) * MIN_QUESTIONS_PER_DIMENSION

\* shouldCompleteAssessment whose third rule asks for EXPLORATION_QUESTIONS_MIN questions only
shouldCompleteEarly(p) ==
    IF p.questionsAnswered >= HARD_STOP THEN TRUE
    ELSE IF p.currentPhase = "completion" THEN TRUE
    ELSE /\ \A dim \in Dimension : range(p.dimensions[dim]) <= CONVERGENCE_THRESHOLD
         /\ p.questionsAnswered >= EXPLORATION_QUESTIONS_MIN

shouldCompleteAssessment(p) ==
    IF p.questionsAnswered >= HARD_STOP THEN TRUE
    ELSE IF p.currentPhase = "completion" THEN TRUE
    ELSE LET allConverged ==
                 \A dim \in Dimension : range(p.dimensions[dim]) <= CONVERGENCE_THRESHOLD
             minQuestionsReached ==
                 p.questionsAnswered >=
                     EXPLORATION_QUESTIONS_MIN + Len(DIMENSIONS) * MIN_QUESTIONS_PER_DIMENSION
         IN  allConverged /\ minQuestionsReached

\* calculateConfidence as a fraction: confidenceNum / confidenceDen.
\* rangeConfidence * 0.5 + questionConfidence * 0.3 + accuracyConfidence * 0.2 with
\* rangeConfidence = 1 - range/4, questionConfidence = min(questionCount/6, 1) and
\* accuracy = correctCount/questionCount (0.5 with no question), over 8 * Scale * questionCount
confidenceDen(dimState) ==
    8 * Scale * (IF dimState.questionCount > 0 THEN dimState.questionCount ELSE 1)

\* calculateConfidence without the accuracy term
confidenceNumNoAccuracy(dimState) ==
    LET q == dimState.questionCount
        qd == IF q > 0 THEN q ELSE 1
    IN  (4 * Scale - range(dimState)) * qd + (8 * Scale * Min(q, 6) * qd) \div 20

confidenceNum(dimState) ==
    LET q == dimState.questionCount
        qd == IF q > 0 THEN q ELSE 1
        rangeConfidence == (4 * Scale - range(dimState)) * qd
        questionConfidence == (8 * Scale * Min(q, 6) * qd) \div 20
        accuracyConfidence ==
            IF q > 0 THEN (8 * Scale * dimState.correctCount) \div 5
            ELSE (8 * Scale) \div 10
    IN  rangeConfidence + questionConfidence + accuracyConfidence

\* calculateConfidence(a) <= calculateConfidence(b)
confidenceLeq(a, b) ==
    confidenceNum(a) * confidenceDen(b) <= confidenceNum(b) * confidenceDen(a)

-----------------------------------------------------------------------------
(* selectNextQuestion *)

\* the comparison of findMostUncertainDimension with >= in place of >
adjustedUncertaintyGeq(a, b) ==
    (range(a) * (a.questionCount + 1) + Scale) * (b.questionCount + 1)
        >= (range(b) * (b.questionCount + 1) + Scale) * (a.questionCount + 1)

\* adjustedUncertainty(a) > adjustedUncertainty(b), adjustedUncertainty = range + 1/(questionCount + 1)
adjustedUncertaintyGreater(a, b) ==
    (range(a) * (a.questionCount + 1) + Scale) * (b.questionCount + 1)
        > (range(b) * (b.questionCount + 1) + Scale) * (a.questionCount + 1)

\* the comparison with the initial maxUncertainty on the range alone
rangePositive(a) == range(a) > 0

\* adjustedUncertainty(a) > 0, the initial maxUncertainty
adjustedUncertaintyPositive(a) == range(a) * (a.questionCount + 1) + Scale > 0

\* the loop of findMostUncertainDimension after the first i dimensions; "null" while none was taken,
\* and maxUncertainty is 0 until then
RECURSIVE mostUncertainAfter(_, _)
mostUncertainAfter(p, i) ==
    IF i = 0 THEN "null"
    ELSE LET best == mostUncertainAfter(p, i - 1)
             dim == DIMENSIONS[i]
         IN  IF best = "null"
             THEN IF adjustedUncertaintyPositive(p.dimensions[dim]) THEN dim ELSE "null"
             ELSE IF adjustedUncertaintyGreater(p.dimensions[dim], p.dimensions[best])
                  THEN dim
                  ELSE best

findMostUncertainDimension(p) == mostUncertainAfter(p, Len(DIMENSIONS))

clampDifficulty(value) == Max(1, Min(5, Round(value)))

typeMap ==
    [lowLevelBinary |-> <<"oneLiner", "multipleChoice", "trace">>,
     controlFlow |-> <<"trace", "codeIDE", "multipleChoice">>,
     hardwareIO |-> <<"codeIDE", "multipleChoice", "trace">>,
     codeReading |-> <<"trace", "multipleChoice">>,
     decomposition |-> <<"codeIDE", "multipleChoice">>]

getQuestionTypeForDimension(dimension, phase) ==
    LET types == typeMap[dimension]
    IN  IF phase = "exploration"
        THEN IF \E i \in 1..Len(types) : types[i] = "multipleChoice"
             THEN "multipleChoice" ELSE types[1]
        ELSE types[1]

\* the untested dimensions in reverse canonical order
untestedReversed(p) ==
    SelectSeq([i \in 1..Len(DIMENSIONS) |-> DIMENSIONS[Len(DIMENSIONS) + 1 - i]],
              LAMBDA dim : ~p.dimensions[dim].tested)

\* selectNextQuestion whose source is ai on a narrow range only, whatever questionCount
selectNextQuestionRangeOnly(p) ==
    IF \E dim \in Dimension : ~p.dimensions[dim].tested
    THEN {[dimension |-> (CHOOSE dim \in Dimension :
                             /\ ~p.dimensions[dim].tested
                             /\ \A i \in 1..Len(DIMENSIONS) :
                                   ~p.dimensions[DIMENSIONS[i]].tested
                                   => \E j \in 1..i : DIMENSIONS[j] = dim),
           targetDifficulty |-> 3,
           source |-> "bank",
           questionType |-> "multipleChoice"]}
    ELSE LET mostUncertain == findMostUncertainDimension(p)
             dimState == p.dimensions[mostUncertain]
             targetDifficulty == Round((dimState.lowerBound + dimState.upperBound) \div 2)
         IN  {[dimension |-> mostUncertain,
               targetDifficulty |-> clampDifficulty(targetDifficulty * Scale),
               source |-> IF range(dimState) <= 2 * Scale THEN "ai" ELSE "bank",
               questionType |-> getQuestionTypeForDimension(mostUncertain, "refinement")]}

\* the untested dimensions in canonical order
untestedDimensions(p) ==
    SelectSeq(DIMENSIONS, LAMBDA dim : ~p.dimensions[dim].tested)

\* the set of results selectNextQuestion can return (more than one only in the random fallback)
selectNextQuestion(p) ==
    IF Len(untestedDimensions(p)) > 0
    THEN {[dimension |-> untestedDimensions(p)[1],
           targetDifficulty |-> 3,
           source |-> "bank",
           questionType |-> getQuestionTypeForDimension(untestedDimensions(p)[1], "exploration")]}
    ELSE LET mostUncertain == findMostUncertainDimension(p)
         IN  IF mostUncertain # "null"
             THEN LET dimState == p.dimensions[mostUncertain]
                      targetDifficulty ==
                          Round((dimState.lowerBound + dimState.upperBound) \div 2)
                      useAI == range(dimState) <= 2 * Scale \/ dimState.questionCount >= 3
                  IN  {[dimension |-> mostUncertain,
                        targetDifficulty |-> clampDifficulty(targetDifficulty * Scale),
                        source |-> IF useAI THEN "ai" ELSE "bank",
                        questionType |-> getQuestionTypeForDimension(mostUncertain, "refinement")]}
             ELSE {[dimension |-> randomDim,
                    targetDifficulty |-> clampDifficulty(p.dimensions[randomDim].lowerBound),
                    source |-> "bank",
                    questionType |-> getQuestionTypeForDimension(randomDim, "completion")]
                   : randomDim \in Dimension}

-----------------------------------------------------------------------------
(* SpecBounds: the engine alone.  A fresh profile receives updateBounds calls  *)
(* with every difficulty 1..5 and every evaluation; the calls of one behaviour *)
(* target one dimension, any of the five.                                      *)

NoCall == [op |-> "none"]

NoAssessment == [id |-> "none"]

Responses ==
    [dimension : Dimension, difficulty : DifficultyLevel, correct : BOOLEAN, partial : BOOLEAN]

\* the requests of SpecTurns
Requests == 1..MaxRequests

\* a request that has not reached the server
idleRequest == [pc |-> "idle"]

sessionIdle ==
    /\ started = FALSE
    /\ assessment = NoAssessment
    /\ dimensionStates = <<>>
    /\ questionResponses = <<>>
    /\ nextAiId = 0
    /\ lateSubmits = 0
    /\ verdictChanges = 0
    /\ presented = <<>>
    /\ turn = [op |-> "none"]
    /\ requests = [r \in Requests |-> idleRequest]
    /\ hintEvents = <<>>

InitBounds ==
    /\ profile = createStudentProfile
    /\ last = NoCall
    /\ sessionIdle

UpdateBoundsCall(response) ==
    /\ profile.dimensions[response.dimension].questionCount < MaxUpdates
    /\ \A other \in Dimension \ {response.dimension} : ~profile.dimensions[other].tested
    /\ profile' = updateBounds(profile, response)
    /\ last' = [op |-> "updateBounds", response |-> response,
                before |-> profile.dimensions[response.dimension],
                passed |-> profile,
                argument |-> updateBoundsArgument(profile, response)]
    /\ UNCHANGED <<started, assessment, dimensionStates, questionResponses,
                   nextAiId, lateSubmits, verdictChanges, presented, turn, requests, hintEvents>>

NextBounds == \E response \in Responses : UpdateBoundsCall(response)

SpecBounds == InitBounds /\ [][NextBounds]_vars

-----------------------------------------------------------------------------
(* SpecSelect: selectNextQuestion on profiles with every dimension tested.  Every  *)
(* dimension has received one answer at difficulty 3 with a common evaluation; one *)
(* dimension, any of the five, then receives further updateBounds calls with every *)
(* difficulty and evaluation, and selectNextQuestion is applied after each call.   *)

\* the profile after one answer at difficulty 3 in every dimension
exploredProfile(evaluation) ==
    [createStudentProfile EXCEPT
        !.dimensions =
            [dim \in Dimension |->
                updateDimState(initialDimState,
                               [dimension |-> dim, difficulty |-> 3,
                                correct |-> evaluation.correct,
                                partial |-> evaluation.partial])]]

InitSelect ==
    /\ \E evaluation \in Evaluations : profile = exploredProfile(evaluation)
    /\ last = NoCall
    /\ sessionIdle

SelectCall(response) ==
    /\ profile.dimensions[response.dimension].questionCount < MaxUpdates
    /\ \A other \in Dimension \ {response.dimension} :
          profile.dimensions[other].questionCount <= 1
    /\ \E updated \in {updateBounds(profile, response)} :
       \E nextQuestionSpec \in selectNextQuestion(updated) :
          /\ profile' = updated
          /\ turn' = [op |-> "select", nextQuestionSpec |-> nextQuestionSpec]
    /\ last' = [op |-> "updateBounds", response |-> response,
                before |-> profile.dimensions[response.dimension]]
    /\ UNCHANGED <<started, assessment, dimensionStates, questionResponses,
                   nextAiId, lateSubmits, verdictChanges, presented, requests, hintEvents>>

NextSelect == \E response \in Responses : SelectCall(response)

SpecSelect == InitSelect /\ [][NextSelect]_vars

-----------------------------------------------------------------------------
(* Properties of updateBounds and calculateConfidence, under SpecBounds *)

called == last.op = "updateBounds"

\* the DimensionState the last call produced
after == profile.dimensions[last.response.dimension]

\* the DimensionState after the verdict rule and the clamp, before "Ensure lower <= upper"
beforeResolution ==
    clampBounds(applyVerdict(countAnswer(last.before, last.response), last.before, last.response))

isPartial(response) == ~response.correct /\ response.partial

isWrong(response) == ~response.correct /\ ~response.partial

\* C1: after any sequence of updateBounds calls on a fresh profile, every
\* DimensionState has 1 <= lowerBound <= upperBound <= 5.
C1_BoundsInvariant ==
    \A dim \in Dimension :
        /\ 1 * Scale <= profile.dimensions[dim].lowerBound
        /\ profile.dimensions[dim].lowerBound <= profile.dimensions[dim].upperBound
        /\ profile.dimensions[dim].upperBound <= 5 * Scale

\* C1 witness: a call whose verdict rule left lowerBound > upperBound has been resolved
C1_Witness ==
    /\ called
    /\ beforeResolution.lowerBound > beforeResolution.upperBound
    /\ after.lowerBound = after.upperBound

\* C5: a correct answer at difficulty d >= L yields lowerBound >= min(U, d - 0.3);
\* a fresh dimension answered correctly at 3 ends with lowerBound >= 2.7.
C5_CorrectRaisesLower ==
    (called /\ last.response.correct
        /\ last.response.difficulty * Scale >= last.before.lowerBound)
    => /\ after.lowerBound
            >= Min(last.before.upperBound, last.response.difficulty * Scale - Tenths(3))
       /\ (last.before = initialDimState /\ last.response.difficulty = 3)
            => (after.lowerBound >= Tenths(27) /\ after.tested /\ after.questionCount = 1)

\* C5 witness: a correct answer at a difficulty above the lower bound moved the lower bound
C5_Witness ==
    /\ called /\ last.response.correct
    /\ last.response.difficulty * Scale >= last.before.lowerBound
    /\ last.before.questionCount > 0
    /\ after.lowerBound > last.before.lowerBound

\* C6 (as claimed): a wrong answer that is not treated leniently leaves upperBound <= d - 0.5
C6_WrongCapsUpper ==
    (called /\ isWrong(last.response)
        /\ ~isLenient(countAnswer(last.before, last.response), last.before))
    => after.upperBound <= last.response.difficulty * Scale - Tenths(5)

\* the call at which C6 fails: a dimension at [3.7, 5] after one correct answer at 4 is
\* answered wrongly at 3, the standard branch is taken and upperBound ends at 3.7
C6_AboveFailedDifficulty ==
    /\ called /\ isWrong(last.response) /\ last.response.difficulty = 3
    /\ last.before = [lowerBound |-> Tenths(37), upperBound |-> 5 * Scale, tested |-> TRUE,
                      questionCount |-> 1, correctCount |-> 1]
    /\ ~isLenient(countAnswer(last.before, last.response), last.before)
    /\ after.upperBound = Tenths(37)

\* Scenario B alone: bounds [1,5], no prior question, wrong at 3 gives upperBound <= 2.5
C6_ScenarioB ==
    (called /\ isWrong(last.response) /\ last.before = initialDimState
        /\ last.response.difficulty = 3)
    => after.upperBound <= Tenths(25)

\* the state k consecutive wrong answers at difficulty 3 leave in a fresh dimension
afterWrongRun(k) ==
    [lowerBound |-> 1 * Scale, upperBound |-> Tenths(25), tested |-> TRUE,
     questionCount |-> k, correctCount |-> 0]

\* C7: a wrong answer at prior accuracy < 0.4 never raises lowerBound and never takes it
\* below 1; in a run of five wrong answers at difficulty 3 the low-accuracy path is taken
\* from the second answer on (not on the first) and lowerBound never increases.
C7_WrongLowAccuracy ==
    /\ (called /\ isWrong(last.response) /\ accuracyBelow(last.before, 4))
        => (after.lowerBound <= last.before.lowerBound /\ after.lowerBound >= 1 * Scale)
    /\ (called /\ isWrong(last.response) /\ last.response.difficulty = 3)
        => /\ last.before = initialDimState
                => (~accuracyBelow(last.before, 4) /\ after = afterWrongRun(1))
           /\ \A k \in 1..4 :
                last.before = afterWrongRun(k)
                => (accuracyBelow(last.before, 4) /\ after = afterWrongRun(k + 1)
                    /\ after.lowerBound <= last.before.lowerBound)

\* C7 witness: the fifth wrong answer at difficulty 3 in a row
C7_Witness ==
    /\ called /\ isWrong(last.response) /\ last.response.difficulty = 3
    /\ last.before = afterWrongRun(4)
    /\ after = afterWrongRun(5)

\* C7 witness of the general case: the low-accuracy path lowered lowerBound
C7_PulledDown ==
    /\ called /\ isWrong(last.response) /\ accuracyBelow(last.before, 4)
    /\ after.lowerBound < last.before.lowerBound

\* C8 (as claimed): after a partial verdict lowerBound is not lower and upperBound not higher
C8_PartialOnlyTightens ==
    (called /\ isPartial(last.response))
    => (after.lowerBound >= last.before.lowerBound
        /\ after.upperBound <= last.before.upperBound)

\* C8 (amended): after a partial verdict upperBound is not higher and the range is not
\* wider; lowerBound is not lower unless d + 0.5 is below it, and then lowerBound is
\* lowered to the new upperBound d + 0.5.
C8_PartialAmended ==
    (called /\ isPartial(last.response))
    => /\ after.upperBound <= last.before.upperBound
       /\ range(after) <= range(last.before)
       /\ IF last.response.difficulty * Scale + Tenths(5) >= last.before.lowerBound
          THEN after.lowerBound >= last.before.lowerBound
          ELSE /\ after.lowerBound = last.response.difficulty * Scale + Tenths(5)
               /\ after.upperBound = after.lowerBound

\* C8 witness: a partial verdict below the lower bound pulled lowerBound down to d + 0.5
C8_Witness ==
    /\ called /\ isPartial(last.response)
    /\ last.response.difficulty * Scale + Tenths(5) < last.before.lowerBound
    /\ after.lowerBound < last.before.lowerBound

\* the same DimensionState with one more answered question
oneMoreQuestion(dimState, correct) ==
    [dimState EXCEPT !.questionCount = @ + 1,
                     !.correctCount = IF correct THEN @ + 1 ELSE @]

-----------------------------------------------------------------------------
(* The question bank and the generator *)

\* the seeded bank holds questions at difficulties 2, 3 and 4 in every dimension
BankTiers == {2, 3, 4}

dimensionIndex(dim) == CHOOSE i \in 1..Len(DIMENSIONS) : DIMENSIONS[i] = dim

\* rows of question_bank
questionBank ==
    {[id |-> dimensionIndex(dim) * 100 + tier * 10 + k,
      dimension |-> dim, difficulty |-> tier, source |-> "bank"]
        : dim \in Dimension, tier \in BankTiers, k \in 1..BankPerTier}

\* the lookup without the filter on excludeIds
getQuestionUnfiltered(dimension, difficulty, excludeIds) ==
    {q \in questionBank : q.dimension = dimension /\ q.difficulty = difficulty}

\* getQuestionByDimensionAndDifficulty: the questions the random pick can return;
\* the empty set stands for null
getQuestionByDimensionAndDifficulty(dimension, difficulty, excludeIds) ==
    {q \in questionBank :
        /\ q.dimension = dimension
        /\ q.difficulty = difficulty
        /\ q.id \notin excludeIds}

\* generateQuestion: a new question of the requested dimension and difficulty
generateQuestion(dimension, difficulty) ==
    [id |-> 1000 + nextAiId, dimension |-> dimension, difficulty |-> difficulty,
     source |-> "ai"]

\* getOrGenerateQuestion without the lookup at difficulty + 1
getOrGenerateNoAbove(dimension, difficulty, askedQuestions) ==
    LET exact == getQuestionByDimensionAndDifficulty(dimension, difficulty, askedQuestions)
        below == IF exact = {} /\ difficulty > 1
                 THEN getQuestionByDimensionAndDifficulty(dimension, difficulty - 1, askedQuestions)
                 ELSE exact
    IN  IF below # {} THEN below ELSE {generateQuestion(dimension, difficulty)}

\* getOrGenerateQuestion: the questions it can return
getOrGenerateQuestion(dimension, difficulty, askedQuestions) ==
    LET exact == getQuestionByDimensionAndDifficulty(dimension, difficulty, askedQuestions)
        below == IF exact = {} /\ difficulty > 1
                 THEN getQuestionByDimensionAndDifficulty(dimension, difficulty - 1, askedQuestions)
                 ELSE exact
        above == IF below = {} /\ difficulty < 5
                 THEN getQuestionByDimensionAndDifficulty(dimension, difficulty + 1, askedQuestions)
                 ELSE below
    IN  IF above # {} THEN above ELSE {generateQuestion(dimension, difficulty)}

-----------------------------------------------------------------------------
(* Spec: one session, POST /start and then POST /submit turn by turn *)

seqToSet(ids) == {ids[i] : i \in 1..Len(ids)}

\* loadSessionFromDB
loadSessionFromDB ==
    [currentPhase |-> assessment.currentPhase,
     questionsAnswered |-> assessment.questionsAnswered,
     totalTimeMs |-> assessment.totalTimeMs,
     hintsUsed |-> assessment.hintsUsed,
     partialCredits |-> assessment.partialCredits,
     dimensions |->
        [dim \in Dimension |->
            [lowerBound |-> Max(1 * Scale, Min(5 * Scale, dimensionStates[dim].lowerBound)),
             upperBound |-> Max(1 * Scale, Min(5 * Scale, dimensionStates[dim].upperBound)),
             tested |-> dimensionStates[dim].tested,
             questionCount |-> dimensionStates[dim].questionsAsked,
             correctCount |-> dimensionStates[dim].correctCount]]]

Init ==
    /\ profile = createStudentProfile
    /\ last = NoCall
    /\ sessionIdle

\* POST /start: createAssessment, createDimensionState for every dimension, first question
StartAssessment ==
    /\ ~started
    /\ started' = TRUE
    /\ dimensionStates' =
          [dim \in Dimension |->
              [lowerBound |-> 1 * Scale, upperBound |-> 5 * Scale, tested |-> FALSE,
               questionsAsked |-> 0, correctCount |-> 0]]
    /\ profile' = createStudentProfile
    /\ \E nextQuestionSpec \in selectNextQuestion(createStudentProfile) :
       \E firstQuestion \in getOrGenerateQuestion(nextQuestionSpec.dimension,
                                                  nextQuestionSpec.targetDifficulty, {}) :
          /\ assessment' =
                [id |-> "session", currentPhase |-> "exploration", questionsAnswered |-> 0,
                 totalTimeMs |-> 0, hintsUsed |-> 0, partialCredits |-> 0,
                 completed |-> FALSE, currentQuestionData |-> firstQuestion]
          /\ nextAiId' = IF firstQuestion.source = "ai" THEN nextAiId + 1 ELSE nextAiId
          /\ presented' = Append(presented, firstQuestion.id)
          /\ turn' = [op |-> "start", nextQuestion |-> firstQuestion, excludeIds |-> {},
                      nextQuestionSpec |-> nextQuestionSpec]
    /\ UNCHANGED <<last, questionResponses, lateSubmits, verdictChanges, requests, hintEvents>>

\* the evaluation differs from the one of the turn before
verdictChanged(evaluation) ==
    /\ last # NoCall
    /\ \/ last.response.correct # evaluation.correct
       \/ last.response.partial # evaluation.partial

\* the response record the handler builds from the stored current question
responseTo(currentQuestion, evaluation) ==
    [dimension |-> currentQuestion.dimension,
     difficulty |-> IF currentQuestion.difficulty = 0 THEN 3 ELSE currentQuestion.difficulty,
     correct |-> evaluation.correct,
     partial |-> evaluation.partial]

\* updateBounds, questionsAnswered++, partialCredits++ on partial, currentPhase = determinePhase
answeredProfile(loaded, response) ==
    LET counted == [updateBounds(loaded, response) EXCEPT
                       !.questionsAnswered = @ + 1,
                       !.partialCredits = IF response.partial THEN @ + 1 ELSE @]
    IN  [counted EXCEPT !.currentPhase = determinePhase(counted)]

\* POST /submit with the id of the question being shown and the evaluator's result
Submit(evaluation) ==
    /\ started
    /\ assessment.completed => lateSubmits < MaxLateSubmits
    /\ verdictChanged(evaluation) => verdictChanges < MaxVerdictChanges
    /\ \E loaded \in {loadSessionFromDB} :
       \E response \in {responseTo(assessment.currentQuestionData, evaluation)} :
       \E updatedProfile \in {answeredProfile(loaded, response)} :
       \E shouldComplete \in {shouldCompleteAssessment(updatedProfile)} :
          LET questionId == assessment.currentQuestionData.id
              updatedDim == updatedProfile.dimensions[response.dimension]
              updatedAskedQuestions == seqToSet(questionResponses) \cup {questionId}
              saved == [assessment EXCEPT
                           !.questionsAnswered = @ + 1,
                           !.totalTimeMs = updatedProfile.totalTimeMs,
                           !.hintsUsed = updatedProfile.hintsUsed,
                           !.partialCredits = updatedProfile.partialCredits]
          IN  /\ questionResponses' = Append(questionResponses, questionId)
              /\ last' = [op |-> "updateBounds", response |-> response,
                          before |-> loaded.dimensions[response.dimension]]
              /\ profile' = updatedProfile
              /\ dimensionStates' =
                    [dimensionStates EXCEPT ![response.dimension] =
                        [lowerBound |-> updatedDim.lowerBound,
                         upperBound |-> updatedDim.upperBound,
                         tested |-> updatedDim.tested,
                         questionsAsked |-> @.questionsAsked + 1,
                         correctCount |-> updatedDim.correctCount]]
              /\ lateSubmits' = IF assessment.completed THEN lateSubmits + 1 ELSE lateSubmits
              /\ verdictChanges' = IF verdictChanged(evaluation)
                                   THEN verdictChanges + 1 ELSE verdictChanges
              /\ IF shouldComplete
                 THEN /\ assessment' = [saved EXCEPT !.completed = TRUE,
                                                     !.currentPhase = "complete"]
                      /\ turn' = [op |-> "submit", shouldComplete |-> TRUE,
                                  phaseBefore |-> profile.currentPhase,
                                  late |-> assessment.completed]
                      /\ UNCHANGED <<nextAiId, presented>>
                 ELSE \E nextQuestionSpec \in selectNextQuestion(updatedProfile) :
                      \E nextQuestion \in getOrGenerateQuestion(nextQuestionSpec.dimension,
                                             nextQuestionSpec.targetDifficulty,
                                             updatedAskedQuestions) :
                         /\ assessment' = [saved EXCEPT !.currentQuestionData = nextQuestion]
                         /\ nextAiId' = IF nextQuestion.source = "ai"
                                        THEN nextAiId + 1 ELSE nextAiId
                         /\ presented' = Append(presented, nextQuestion.id)
                         /\ turn' = [op |-> "submit", shouldComplete |-> FALSE,
                                     phaseBefore |-> profile.currentPhase,
                                     late |-> assessment.completed,
                                     excludeIds |-> updatedAskedQuestions,
                                     nextQuestionSpec |-> nextQuestionSpec,
                                     nextQuestion |-> nextQuestion]
    /\ UNCHANGED <<started, requests, hintEvents>>

Next ==
    \/ StartAssessment
    \/ \E evaluation \in Evaluations : Submit(evaluation)

Spec == Init /\ [][Next]_vars

-----------------------------------------------------------------------------
(* SpecTurns: POST /start, then MaxRequests POST /submit requests of the session, *)
(* each running the handler one await at a time.  Nothing in the handler or in    *)
(* the store client brackets a turn (no lock, no transaction), so the steps of    *)
(* two requests interleave freely.  A collaborator call (the evaluator, a store   *)
(* operation, the lookup or generation of the next question) may fail; the        *)
(* handler's catch then answers 500.                                              *)

\* how evaluateAnswer obtains its result: from the question itself (multiple choice,
\* one-liner match), from evaluateWithAI, or from its own callClaude
EvaluatorPaths == {"direct", "helper", "ai"}

\* what the language-model call does: answers with a JSON verdict, fails, or answers
\* with text that JSON.parse rejects
EvaluatorOutcomes == {"verdict", "apiError", "unparseable"}

\* evaluateWithAI: any error inside it yields partial credit
evaluateWithAI(outcome, verdict) ==
    IF outcome = "verdict"
    THEN [threw |-> FALSE, produced |-> TRUE, evaluation |-> verdict]
    ELSE [threw |-> FALSE, produced |-> FALSE,
          evaluation |-> [correct |-> FALSE, partial |-> TRUE]]

\* evaluateAnswer on a question that was found: it threw, or the evaluation it returns
\* and whether the evaluator produced that evaluation
evaluateAnswer(path, outcome, verdict) ==
    IF path = "direct"
    THEN [threw |-> FALSE, produced |-> TRUE,
          evaluation |-> [correct |-> verdict.correct, partial |-> FALSE]]
    ELSE IF path = "helper"
    THEN evaluateWithAI(outcome, verdict)
    ELSE IF outcome = "apiError"
    THEN [threw |-> TRUE, produced |-> FALSE]
    ELSE IF outcome = "unparseable"
    THEN [threw |-> FALSE, produced |-> FALSE,
          evaluation |-> [correct |-> FALSE, partial |-> FALSE]]
    ELSE [threw |-> FALSE, produced |-> TRUE, evaluation |-> verdict]

\* request r moves on with the local variables in fields added to the ones it has
proceed(r, fields) == [requests EXCEPT ![r] = fields @@ @]

\* the catch of the handler: 500 "Failed to submit answer"
failed(r, collaborator) ==
    proceed(r, [pc |-> "failed", failedAt |-> requests[r].pc, collaborator |-> collaborator])

\* the request arrives with the id of a question the client was shown; loadSessionFromDB
LoadSession(r) ==
    /\ started
    /\ requests[r].pc = "idle"
    /\ \E questionId \in seqToSet(presented) :
          requests' = proceed(r, [pc |-> "loaded", questionId |-> questionId,
                                  profile |-> loadSessionFromDB,
                                  askedQuestions |-> seqToSet(questionResponses)])
    /\ UNCHANGED <<profile, last, started, assessment, dimensionStates, questionResponses,
                   nextAiId, lateSubmits, verdictChanges, presented, turn, hintEvents>>

\* getCurrentQuestion
GetCurrentQuestion(r) ==
    /\ requests[r].pc = "loaded"
    /\ requests' = proceed(r, [pc |-> "question",
                               currentQuestion |-> assessment.currentQuestionData])
    /\ UNCHANGED <<profile, last, started, assessment, dimensionStates, questionResponses,
                   nextAiId, lateSubmits, verdictChanges, presented, turn, hintEvents>>

\* evaluateAnswer and the response record built from its result
Evaluate(r) ==
    /\ requests[r].pc = "question"
    /\ \E path \in EvaluatorPaths, outcome \in EvaluatorOutcomes, verdict \in Evaluations :
       \E result \in {evaluateAnswer(path, outcome, verdict)} :
          requests' =
             IF result.threw
             THEN failed(r, "evaluator")
             ELSE proceed(r, [pc |-> "evaluated", produced |-> result.produced,
                              response |-> responseTo(requests[r].currentQuestion,
                                                      result.evaluation)])
    /\ UNCHANGED <<profile, last, started, assessment, dimensionStates, questionResponses,
                   nextAiId, lateSubmits, verdictChanges, presented, turn, hintEvents>>

\* saveQuestionResponse, then updateBounds, the counters and determinePhase in memory
SaveQuestionResponse(r) ==
    /\ requests[r].pc = "evaluated"
    /\ questionResponses' = Append(questionResponses, requests[r].questionId)
    /\ requests' = proceed(r, [pc |-> "saved",
                               updatedProfile |-> answeredProfile(requests[r].profile,
                                                                  requests[r].response)])
    /\ UNCHANGED <<profile, last, started, assessment, dimensionStates,
                   nextAiId, lateSubmits, verdictChanges, presented, turn, hintEvents>>

\* incrementQuestionsAnswered: the select
ReadQuestionsAnswered(r) ==
    /\ requests[r].pc = "saved"
    /\ requests' = proceed(r, [pc |-> "counting", seen |-> assessment.questionsAnswered])
    /\ UNCHANGED <<profile, last, started, assessment, dimensionStates, questionResponses,
                   nextAiId, lateSubmits, verdictChanges, presented, turn, hintEvents>>

\* incrementQuestionsAnswered: the update
WriteQuestionsAnswered(r) ==
    /\ requests[r].pc = "counting"
    /\ assessment' = [assessment EXCEPT !.questionsAnswered = requests[r].seen + 1]
    /\ requests' = proceed(r, [pc |-> "counted"])
    /\ UNCHANGED <<profile, last, started, dimensionStates, questionResponses,
                   nextAiId, lateSubmits, verdictChanges, presented, turn, hintEvents>>

\* updateDimensionBounds: the select
ReadDimensionState(r) ==
    /\ requests[r].pc = "counted"
    /\ requests' = proceed(r, [pc |-> "bounding",
                               seen |-> dimensionStates[requests[r].response.dimension]
                                           .questionsAsked])
    /\ UNCHANGED <<profile, last, started, assessment, dimensionStates, questionResponses,
                   nextAiId, lateSubmits, verdictChanges, presented, turn, hintEvents>>

\* updateDimensionBounds: the update
WriteDimensionBounds(r) ==
    /\ requests[r].pc = "bounding"
    /\ LET updatedDim == requests[r].updatedProfile.dimensions[requests[r].response.dimension]
       IN  dimensionStates' =
              [dimensionStates EXCEPT ![requests[r].response.dimension] =
                  [lowerBound |-> updatedDim.lowerBound,
                   upperBound |-> updatedDim.upperBound,
                   tested |-> updatedDim.tested,
                   questionsAsked |-> requests[r].seen + 1,
                   correctCount |-> updatedDim.correctCount]]
    /\ requests' = proceed(r, [pc |-> "bounded"])
    /\ UNCHANGED <<profile, last, started, assessment, questionResponses,
                   nextAiId, lateSubmits, verdictChanges, presented, turn, hintEvents>>

\* updateAssessmentMetrics
UpdateAssessmentMetrics(r) ==
    /\ requests[r].pc = "bounded"
    /\ assessment' = [assessment EXCEPT
                         !.totalTimeMs = requests[r].updatedProfile.totalTimeMs,
                         !.hintsUsed = requests[r].updatedProfile.hintsUsed,
                         !.partialCredits = requests[r].updatedProfile.partialCredits]
    /\ requests' = proceed(r, [pc |-> "persisted"])
    /\ UNCHANGED <<profile, last, started, dimensionStates, questionResponses,
                   nextAiId, lateSubmits, verdictChanges, presented, turn, hintEvents>>

\* shouldCompleteAssessment, then completeAssessment or selectNextQuestion and
\* getOrGenerateQuestion
NextQuestion(r) ==
    /\ requests[r].pc = "persisted"
    /\ IF shouldCompleteAssessment(requests[r].updatedProfile)
       THEN /\ assessment' = [assessment EXCEPT !.completed = TRUE,
                                                !.currentPhase = "complete"]
            /\ requests' = proceed(r, [pc |-> "done"])
            /\ UNCHANGED nextAiId
       ELSE \E nextQuestionSpec \in selectNextQuestion(requests[r].updatedProfile) :
            \E nextQuestion \in getOrGenerateQuestion(nextQuestionSpec.dimension,
                                   nextQuestionSpec.targetDifficulty,
                                   requests[r].askedQuestions \cup {requests[r].questionId}) :
               /\ nextAiId' = IF nextQuestion.source = "ai" THEN nextAiId + 1 ELSE nextAiId
               /\ requests' = proceed(r, [pc |-> "chosen", nextQuestion |-> nextQuestion])
               /\ UNCHANGED assessment
    /\ UNCHANGED <<profile, last, started, dimensionStates, questionResponses,
                   lateSubmits, verdictChanges, presented, turn, hintEvents>>

\* setCurrentQuestion and the response with the next question
SetCurrentQuestion(r) ==
    /\ requests[r].pc = "chosen"
    /\ assessment' = [assessment EXCEPT !.currentQuestionData = requests[r].nextQuestion]
    /\ presented' = Append(presented, requests[r].nextQuestion.id)
    /\ requests' = proceed(r, [pc |-> "done"])
    /\ UNCHANGED <<profile, last, started, dimensionStates, questionResponses,
                   nextAiId, lateSubmits, verdictChanges, turn, hintEvents>>

\* the collaborator the handler is about to call, by position
nextCollaborator(pc) ==
    IF pc = "persisted" THEN "nextQuestion" ELSE "store"

\* the store operation, or the lookup or generation of the next question, that the
\* request is about to await throws
CollaboratorFails(r) ==
    /\ requests[r].pc \in {"loaded", "evaluated", "saved", "counting", "counted",
                           "bounding", "bounded", "persisted", "chosen"}
    /\ requests' = failed(r, nextCollaborator(requests[r].pc))
    /\ UNCHANGED <<profile, last, started, assessment, dimensionStates, questionResponses,
                   nextAiId, lateSubmits, verdictChanges, presented, turn, hintEvents>>

NextTurns ==
    \/ StartAssessment
    \/ \E r \in Requests :
          \/ LoadSession(r)
          \/ GetCurrentQuestion(r)
          \/ Evaluate(r)
          \/ SaveQuestionResponse(r)
          \/ ReadQuestionsAnswered(r)
          \/ WriteQuestionsAnswered(r)
          \/ ReadDimensionState(r)
          \/ WriteDimensionBounds(r)
          \/ UpdateAssessmentMetrics(r)
          \/ NextQuestion(r)
          \/ SetCurrentQuestion(r)
          \/ CollaboratorFails(r)

SpecTurns == Init /\ [][NextTurns]_vars

-----------------------------------------------------------------------------
(* SpecOutcomes: the response record of the submit turn and updateBounds, on the    *)
(* questions the store can hold as current question.  generateQuestion spreads the  *)
(* parsed model output over the dimension and the difficulty it was asked for, and  *)
(* setCurrentQuestion stores the result as it is, so both fields are whatever the    *)
(* language model wrote.  As in SpecBounds, the calls of a behaviour target one     *)
(* dimension.                                                                       *)

\* a dimension name that is not one of the five
UnknownDimension == "timing"

StoredDifficulties == (1 - MaxDifficultyExcess)..(5 + MaxDifficultyExcess)

\* the current questions a turn can find
StoredQuestions ==
    [dimension : Dimension \cup {UnknownDimension}, difficulty : StoredDifficulties]

\* updateBounds as called: reading questionCount of a DimensionState that does not
\* exist throws a TypeError before anything is written
updateBoundsThrows(p, response) == response.dimension \notin DOMAIN p.dimensions

\* the response record of the turn, then updateBounds on it
ScoreOutcome(currentQuestion, evaluation) ==
    /\ \A dim \in Dimension : profile.dimensions[dim].questionCount < MaxUpdates
    /\ \A other \in Dimension \ {currentQuestion.dimension} : ~profile.dimensions[other].tested
    /\ \E response \in {responseTo(currentQuestion, evaluation)} :
          /\ profile' = IF updateBoundsThrows(profile, response)
                        THEN profile
                        ELSE updateBounds(profile, response)
          /\ last' = [op |-> "outcome", currentQuestion |-> currentQuestion,
                      response |-> response, profileBefore |-> profile,
                      threw |-> updateBoundsThrows(profile, response)]
    /\ UNCHANGED <<started, assessment, dimensionStates, questionResponses,
                   nextAiId, lateSubmits, verdictChanges, presented, turn, requests, hintEvents>>

NextOutcomes ==
    \E currentQuestion \in StoredQuestions, evaluation \in Evaluations :
        ScoreOutcome(currentQuestion, evaluation)

SpecOutcomes == InitBounds /\ [][NextOutcomes]_vars

-----------------------------------------------------------------------------
(* analyzeHintBehavior (server/lib/hint-analysis.ts) and SpecHints: the analysis of *)
(* every list of up to MaxHintEvents hint events.  Averages and rates are kept as   *)
(* fractions num/den of integers; the value 0 is 0/1.                               *)

HintTypes == {"conceptual", "syntactical", "structural", "example", "elimination"}

\* subsequentAction of a hint event; "null" is the empty outcome
SubsequentActions == {"answered_correctly", "answered_wrong", "null"}

\* timeIntoQuestionMs: below 30 s, between 30 s and 120 s, above 120 s
TimesIntoQuestionMs == {10000, 60000, 150000}

HintEvent ==
    [hintType : HintTypes, timeIntoQuestionMs : TimesIntoQuestionMs,
     subsequentAction : SubsequentActions]

RECURSIVE sumTimes(_, _)
\* events.reduce((sum, e) => sum + e.timeIntoQuestionMs, 0) over the first i events
sumTimes(events, i) ==
    IF i = 0 THEN 0 ELSE sumTimes(events, i - 1) + events[i].timeIntoQuestionMs

RECURSIVE insertionOrder(_, _)
\* the hint types among the first i events in the order of their first event: the key
\* order of hintTypeSuccess and of hintTypeDistribution
insertionOrder(events, i) ==
    IF i = 0
    THEN <<>>
    ELSE LET keys == insertionOrder(events, i - 1)
         IN  IF events[i].hintType \in seqToSet(keys)
             THEN keys
             ELSE Append(keys, events[i].hintType)

\* hintTypeSuccess[hintType]
hintTypeSuccess(events, hintType) ==
    [correct |-> Cardinality({i \in 1..Len(events) :
                                 /\ events[i].hintType = hintType
                                 /\ events[i].subsequentAction = "answered_correctly"}),
     total |-> Cardinality({i \in 1..Len(events) : events[i].hintType = hintType})]

RECURSIVE mostEffectiveAmongGeq(_, _, _)
\* the loop with successRate >= highestSuccessRate in place of >
mostEffectiveAmongGeq(events, keys, k) ==
    IF k = 0
    THEN [type |-> "none", num |-> 0, den |-> 1]
    ELSE LET highest == mostEffectiveAmongGeq(events, keys, k - 1)
             stats == hintTypeSuccess(events, keys[k])
         IN  IF stats.correct * highest.den >= highest.num * stats.total
             THEN [type |-> keys[k], num |-> stats.correct, den |-> stats.total]
             ELSE highest

RECURSIVE mostEffectiveAmong(_, _, _)
\* mostEffectiveType and highestSuccessRate after the first k keys of hintTypeSuccess
mostEffectiveAmong(events, keys, k) ==
    IF k = 0
    THEN [type |-> "none", num |-> 0, den |-> 1]
    ELSE LET highest == mostEffectiveAmong(events, keys, k - 1)
             stats == hintTypeSuccess(events, keys[k])
         IN  IF stats.correct * highest.den > highest.num * stats.total
             THEN [type |-> keys[k], num |-> stats.correct, den |-> stats.total]
             ELSE highest

\* the first key of hintTypeDistribution after the stable sort by decreasing count,
\* or conceptual when there is no key
mostUsedType(events, keys) ==
    LET count(k) == hintTypeSuccess(events, keys[k]).total
        first == CHOOSE k \in 1..Len(keys) :
                    /\ \A j \in 1..Len(keys) : count(j) <= count(k)
                    /\ \A j \in 1..(k - 1) : count(j) < count(k)
    IN  IF Len(keys) = 0 THEN "conceptual" ELSE keys[first]

preferredLearningMode(type) ==
    IF type = "example" THEN "pattern_matching"
    ELSE IF type = "conceptual" THEN "theory_first"
    ELSE IF type = "structural" THEN "needs_scaffolding"
    ELSE "syntax_focused"

\* avgTimeToAskSec < 30 ? quick_to_ask : avgTimeToAskSec > 120 ? reluctant : balanced
helpSeekingStyle(events) ==
    IF sumTimes(events, Len(events)) < 30 * 1000 * Len(events) THEN "quick_to_ask"
    ELSE IF sumTimes(events, Len(events)) > 120 * 1000 * Len(events) THEN "reluctant"
    ELSE "balanced"

\* the computation on a list with at least one event
analyzeEvents(events) ==
    LET keys == insertionOrder(events, Len(events))
        answeredAfterHint ==
            Cardinality({i \in 1..Len(events) :
                            events[i].subsequentAction = "answered_correctly"})
    IN  [helpSeekingStyle |-> helpSeekingStyle(events),
         mostEffectiveHintType |-> mostEffectiveAmong(events, keys, Len(keys)).type,
         preferredLearningMode |-> preferredLearningMode(mostUsedType(events, keys)),
         hintEffectiveness |-> [num |-> answeredAfterHint, den |-> Len(events)],
         totalHintsUsed |-> Len(events),
         avgTimeToAskHint |-> [num |-> sumTimes(events, Len(events)),
                               den |-> 1000 * Len(events)],
         hintTypeDistribution |->
             [k \in 1..Len(keys) |->
                 [hintType |-> keys[k],
                  count |-> hintTypeSuccess(events, keys[k]).total]]]

\* analyzeHintBehavior without the early return on an empty list
analyzeHintBehaviorUnguarded(events) == analyzeEvents(events)

analyzeHintBehavior(events) ==
    IF Len(events) = 0
    THEN [helpSeekingStyle |-> "balanced",
          mostEffectiveHintType |-> "none",
          preferredLearningMode |-> "theory_first",
          hintEffectiveness |-> [num |-> 0, den |-> 1],
          totalHintsUsed |-> 0,
          avgTimeToAskHint |-> [num |-> 0, den |-> 1],
          hintTypeDistribution |-> <<>>]
    ELSE analyzeEvents(events)

InitHints ==
    /\ profile = createStudentProfile
    /\ last = NoCall
    /\ started = FALSE
    /\ assessment = NoAssessment
    /\ dimensionStates = <<>>
    /\ questionResponses = <<>>
    /\ nextAiId = 0
    /\ lateSubmits = 0
    /\ verdictChanges = 0
    /\ presented = <<>>
    /\ requests = [r \in Requests |-> idleRequest]
    /\ hintEvents = <<>>
    /\ turn = [op |-> "analyzeHintBehavior", hintProfile |-> analyzeHintBehavior(<<>>)]

\* one more hint event, and analyzeHintBehavior on the list
AnalyzeHints(event) ==
    /\ Len(hintEvents) < MaxHintEvents
    /\ hintEvents' = Append(hintEvents, event)
    /\ turn' = [op |-> "analyzeHintBehavior",
                hintProfile |-> analyzeHintBehavior(Append(hintEvents, event))]
    /\ UNCHANGED <<profile, last, started, assessment, dimensionStates, questionResponses,
                   nextAiId, lateSubmits, verdictChanges, presented, requests>>

NextHints == \E event \in HintEvent : AnalyzeHints(event)

SpecHints == InitHints /\ [][NextHints]_vars

-----------------------------------------------------------------------------
(* SpecHintTurns: POST /start, then MaxRequests POST /submit and MaxHintRequests   *)
(* POST /hint requests of the session, each running its handler one await at a     *)
(* time.  The submit turn is the one of SpecTurns with the client's timeSpentMs    *)
(* and hintsUsed, the saved response and the loop over the hint events of the      *)
(* submitted question; the evaluator answers with a verdict, the store does not    *)
(* fail, and incrementQuestionsAnswered and updateDimensionBounds, which touch     *)
(* neither the hint events nor the metrics, are one step (SpecTurns explores the   *)
(* failures of a submit turn and the interleavings of these two).                  *)

\* the POST /hint requests
HintRequests == (MaxRequests + 1)..(MaxRequests + MaxHintRequests)

\* timeSpentMs of a submit
TimesSpentMs == {20000}

\* the hint type generateHint answers with and the timeIntoQuestionMs of the request
HintsGiven == {[hintType |-> "conceptual", timeIntoQuestionMs |-> 10000]}

\* the client's hintHistory filtered by the question: the hints it was answered with
hintsUsedThisQuestion(questionId) ==
    Cardinality({h \in HintRequests :
                    requests[h].pc = "done" /\ requests[h].questionId = questionId})

\* the submit turn's profile in memory: updateBounds, questionsAnswered++,
\* totalTimeMs += timeSpentMs, hintsUsed += hintsUsed, partialCredits++, determinePhase
answeredProfileWith(loaded, response, timeSpentMs, hintsUsed) ==
    [answeredProfile(loaded, response) EXCEPT
        !.totalTimeMs = @ + timeSpentMs,
        !.hintsUsed = @ + hintsUsed]

InitHintTurns ==
    /\ profile = createStudentProfile
    /\ last = NoCall
    /\ started = FALSE
    /\ assessment = NoAssessment
    /\ dimensionStates = <<>>
    /\ questionResponses = <<>>
    /\ nextAiId = 0
    /\ lateSubmits = 0
    /\ verdictChanges = 0
    /\ presented = <<>>
    /\ turn = [op |-> "none"]
    /\ requests = [r \in Requests \cup HintRequests |-> idleRequest]
    /\ hintEvents = <<>>

\* POST /submit arrives with the id of a question the client was shown, the time spent
\* and the number of hints the client holds for that question; loadSessionFromDB
SubmitArrives(r) ==
    /\ started
    /\ requests[r].pc = "idle"
    /\ \E questionId \in seqToSet(presented), timeSpentMs \in TimesSpentMs :
          requests' = proceed(r, [pc |-> "loaded", questionId |-> questionId,
                                  timeSpentMs |-> timeSpentMs,
                                  hintsUsed |-> hintsUsedThisQuestion(questionId),
                                  profile |-> loadSessionFromDB,
                                  askedQuestions |-> seqToSet(questionResponses)])
    /\ UNCHANGED <<profile, last, started, assessment, dimensionStates, questionResponses,
                   nextAiId, lateSubmits, verdictChanges, presented, turn, hintEvents>>

\* evaluateAnswer returns a verdict; the response record
EvaluateAnswer(r) ==
    /\ requests[r].pc = "question"
    /\ \E verdict \in Evaluations :
          requests' = proceed(r, [pc |-> "evaluated", produced |-> TRUE,
                                  response |-> responseTo(requests[r].currentQuestion,
                                                          verdict)])
    /\ UNCHANGED <<profile, last, started, assessment, dimensionStates, questionResponses,
                   nextAiId, lateSubmits, verdictChanges, presented, turn, hintEvents>>

\* saveQuestionResponse: the row and its id
SaveResponse(r) ==
    /\ requests[r].pc = "evaluated"
    /\ questionResponses' = Append(questionResponses, requests[r].questionId)
    /\ requests' = proceed(r, [pc |-> "responded",
                               savedResponse |-> Len(questionResponses) + 1])
    /\ UNCHANGED <<profile, last, started, assessment, dimensionStates,
                   nextAiId, lateSubmits, verdictChanges, presented, turn, hintEvents>>

\* the rows of the submitted question among the first i hint events, as read
RECURSIVE questionHintsUpTo(_, _)
questionHintsUpTo(questionId, i) ==
    IF i = 0 THEN <<>>
    ELSE IF hintEvents[i].questionId = questionId
         THEN Append(questionHintsUpTo(questionId, i - 1),
                     [id |-> i, subsequentAction |-> hintEvents[i].subsequentAction])
         ELSE questionHintsUpTo(questionId, i - 1)

\* getHintEvents and the filter on the submitted questionId
GetHintEvents(r) ==
    /\ requests[r].pc = "responded"
    /\ requests' = proceed(r, [pc |-> "linking", linked |-> 0,
                               questionHints |-> questionHintsUpTo(requests[r].questionId,
                                                                   Len(hintEvents))])
    /\ UNCHANGED <<profile, last, started, assessment, dimensionStates, questionResponses,
                   nextAiId, lateSubmits, verdictChanges, presented, turn, hintEvents>>

\* the outcome the turn writes for a verdict
outcomeOf(response) == IF response.correct THEN "answered_correctly" ELSE "answered_wrong"

\* one round of the loop: linkHintToResponse, and updateHintEventOutcome when the row
\* as read had no outcome
LinkHintToResponse(r) ==
    /\ requests[r].pc = "linking"
    /\ requests[r].linked < Len(requests[r].questionHints)
    /\ LET hintEvent == requests[r].questionHints[requests[r].linked + 1]
       IN  hintEvents' =
              [hintEvents EXCEPT ![hintEvent.id] =
                  [@ EXCEPT !.questionResponseId = requests[r].savedResponse,
                            !.subsequentAction =
                                IF hintEvent.subsequentAction = "null"
                                THEN outcomeOf(requests[r].response)
                                ELSE @]]
    /\ requests' = proceed(r, [linked |-> requests[r].linked + 1])
    /\ UNCHANGED <<profile, last, started, assessment, dimensionStates, questionResponses,
                   nextAiId, lateSubmits, verdictChanges, presented, turn>>

\* after the loop: updateBounds, the counters and determinePhase in memory, then
\* incrementQuestionsAnswered and updateDimensionBounds
CountAnswer(r) ==
    /\ requests[r].pc = "linking"
    /\ requests[r].linked = Len(requests[r].questionHints)
    /\ \E updatedProfile \in {answeredProfileWith(requests[r].profile, requests[r].response,
                                                  requests[r].timeSpentMs,
                                                  requests[r].hintsUsed)} :
          LET updatedDim == updatedProfile.dimensions[requests[r].response.dimension]
          IN  /\ assessment' = [assessment EXCEPT !.questionsAnswered = @ + 1]
              /\ dimensionStates' =
                    [dimensionStates EXCEPT ![requests[r].response.dimension] =
                        [lowerBound |-> updatedDim.lowerBound,
                         upperBound |-> updatedDim.upperBound,
                         tested |-> updatedDim.tested,
                         questionsAsked |-> @.questionsAsked + 1,
                         correctCount |-> updatedDim.correctCount]]
              /\ requests' = proceed(r, [pc |-> "bounded",
                                         updatedProfile |-> updatedProfile])
    /\ UNCHANGED <<profile, last, started, questionResponses,
                   nextAiId, lateSubmits, verdictChanges, presented, turn, hintEvents>>

\* POST /hint arrives for a question the client was shown; loadSessionFromDB
HintArrives(h) ==
    /\ started
    /\ requests[h].pc = "idle"
    /\ \E questionId \in seqToSet(presented), given \in HintsGiven :
          requests' = proceed(h, [pc |-> "hintLoaded", questionId |-> questionId,
                                  timeIntoQuestionMs |-> given.timeIntoQuestionMs,
                                  hintType |-> given.hintType,
                                  profile |-> loadSessionFromDB])
    /\ UNCHANGED <<profile, last, started, assessment, dimensionStates, questionResponses,
                   nextAiId, lateSubmits, verdictChanges, presented, turn, hintEvents>>

\* getQuestionById: the rows of question_bank with the id; the empty set stands for null
getQuestionById(questionId) == {q \in questionBank : q.id = questionId}

\* getQuestionById, and 404 "Question not found" when the bank has no such row
GetQuestionById(h) ==
    /\ requests[h].pc = "hintLoaded"
    /\ requests' = proceed(h, [pc |-> IF getQuestionById(requests[h].questionId) # {}
                                      THEN "hintQuestion" ELSE "notFound"])
    /\ UNCHANGED <<profile, last, started, assessment, dimensionStates, questionResponses,
                   nextAiId, lateSubmits, verdictChanges, presented, turn, hintEvents>>

\* generateHint
GenerateHint(h) ==
    /\ requests[h].pc = "hintQuestion"
    /\ requests' = proceed(h, [pc |-> "hinted"])
    /\ UNCHANGED <<profile, last, started, assessment, dimensionStates, questionResponses,
                   nextAiId, lateSubmits, verdictChanges, presented, turn, hintEvents>>

\* saveHintEvent: a row without outcome
SaveHintEvent(h) ==
    /\ requests[h].pc = "hinted"
    /\ hintEvents' = Append(hintEvents,
                            [questionId |-> requests[h].questionId,
                             hintType |-> requests[h].hintType,
                             timeIntoQuestionMs |-> requests[h].timeIntoQuestionMs,
                             subsequentAction |-> "null",
                             questionResponseId |-> 0])
    /\ requests' = proceed(h, [pc |-> "hintSaved"])
    /\ UNCHANGED <<profile, last, started, assessment, dimensionStates, questionResponses,
                   nextAiId, lateSubmits, verdictChanges, presented, turn>>

\* updateAssessmentMetrics with the counters as loaded and hintsUsed + 1; the answer
\* with the hint, which the client adds to its hintHistory
CountHint(h) ==
    /\ requests[h].pc = "hintSaved"
    /\ assessment' = [assessment EXCEPT
                         !.totalTimeMs = requests[h].profile.totalTimeMs,
                         !.hintsUsed = requests[h].profile.hintsUsed + 1,
                         !.partialCredits = requests[h].profile.partialCredits]
    /\ requests' = proceed(h, [pc |-> "done"])
    /\ UNCHANGED <<profile, last, started, dimensionStates, questionResponses,
                   nextAiId, lateSubmits, verdictChanges, presented, turn, hintEvents>>

NextHintTurns ==
    \/ StartAssessment
    \/ \E r \in Requests :
          \/ SubmitArrives(r)
          \/ GetCurrentQuestion(r)
          \/ EvaluateAnswer(r)
          \/ SaveResponse(r)
          \/ GetHintEvents(r)
          \/ LinkHintToResponse(r)
          \/ CountAnswer(r)
          \/ UpdateAssessmentMetrics(r)
          \/ NextQuestion(r)
          \/ SetCurrentQuestion(r)
    \/ \E h \in HintRequests :
          \/ HintArrives(h)
          \/ GetQuestionById(h)
          \/ GenerateHint(h)
          \/ SaveHintEvent(h)
          \/ CountHint(h)

SpecHintTurns == InitHintTurns /\ [][NextHintTurns]_vars

-----------------------------------------------------------------------------
(* Properties of the session, under Spec *)

submitted == turn.op = "submit"

allInRange ==
    \A dim \in Dimension : range(profile.dimensions[dim]) <= CONVERGENCE_THRESHOLD

phaseRank(phase) ==
    IF phase = "exploration" THEN 1 ELSE IF phase = "refinement" THEN 2 ELSE 3

bankIds == {q.id : q \in questionBank}

isBankId(id) == id \in bankIds

\* C2: for any sequence of verdicts the session completes no later than the turn in
\* which questionsAnswered reaches 25, whatever the phase: the turn that counts the 25th
\* answer gets shouldComplete = TRUE, and no session is open with 25 answers or more.
C2_HardStop ==
    /\ (submitted /\ profile.questionsAnswered >= HARD_STOP) => turn.shouldComplete
    /\ (started /\ ~assessment.completed) => assessment.questionsAnswered < HARD_STOP

\* C2 witness: the 25th answer completed a session whose phase is not completion
C2_Witness ==
    /\ submitted /\ ~turn.late /\ turn.shouldComplete
    /\ profile.questionsAnswered = HARD_STOP
    /\ profile.currentPhase = "refinement"
    /\ ~allInRange
    /\ assessment.completed

C4_PhaseForward ==
    submitted => phaseRank(turn.phaseBefore) <= phaseRank(profile.currentPhase)

\* the turn at which C4 fails: a submit processed after completion took the phase
\* from completion back to refinement
C4_Regression ==
    /\ submitted /\ turn.late
    /\ turn.phaseBefore = "completion"
    /\ profile.currentPhase = "refinement"

C4_ForwardUntilCompletion ==
    (submitted /\ ~turn.late)
    => phaseRank(turn.phaseBefore) <= phaseRank(profile.currentPhase)

-----------------------------------------------------------------------------
(* Properties of question selection, under Spec *)

\* the last turn sent a question to the client
questionSent == turn.op = "start" \/ (submitted /\ ~turn.shouldComplete)

\* the unasked bank questions of a dimension at a difficulty
unaskedAt(dimension, difficulty, excludeIds) ==
    {q \in questionBank :
        q.dimension = dimension /\ q.difficulty = difficulty /\ q.id \notin excludeIds}

\* the unasked bank questions of a dimension at d, d - 1 or d + 1, within 1..5
unaskedNear(dimension, d, excludeIds) ==
    UNION {unaskedAt(dimension, e, excludeIds) : e \in {d - 1, d, d + 1} \cap DifficultyLevel}

\* C11: getOrGenerateQuestion returns a bank question exactly when an unasked bank
\* question of the chosen dimension exists at the target difficulty d, at d - 1 or at
\* d + 1 (within 1..5), an exact-difficulty one when there is one; in every other case
\* it returns a generated question of the chosen dimension and difficulty; it always
\* has a result (no waiting, no retry).
C11_BankOrGenerate ==
    /\ \A dim \in Dimension : \A d \in DifficultyLevel :
          getOrGenerateQuestion(dim, d, seqToSet(questionResponses)) # {}
    /\ questionSent =>
          LET dim == turn.nextQuestionSpec.dimension
              d == turn.nextQuestionSpec.targetDifficulty
              near == unaskedNear(dim, d, turn.excludeIds)
          IN  /\ turn.nextQuestion.source = "bank" <=> near # {}
              /\ turn.nextQuestion.source = "bank" => turn.nextQuestion \in near
              /\ unaskedAt(dim, d, turn.excludeIds) # {} => turn.nextQuestion.difficulty = d
              /\ turn.nextQuestion.source # "bank" =>
                    /\ turn.nextQuestion.source = "ai"
                    /\ turn.nextQuestion.dimension = dim
                    /\ turn.nextQuestion.difficulty = d

\* C11 witness: the questions at d and d - 1 are asked and the lookup returned the
\* bank question at d + 1
C11_Witness ==
    /\ questionSent
    /\ turn.nextQuestion.source = "bank"
    /\ turn.nextQuestion.difficulty = turn.nextQuestionSpec.targetDifficulty + 1
    /\ \E q \in questionBank :
          /\ q.dimension = turn.nextQuestionSpec.dimension
          /\ q.difficulty = turn.nextQuestionSpec.targetDifficulty - 1
          /\ q.id \in turn.excludeIds

\* C11 witness of the fallback: every bank question near the target is asked and the
\* generator was used
C11_Fallback ==
    /\ questionSent
    /\ turn.nextQuestion.source = "ai"
    /\ \E q \in questionBank :
          /\ q.dimension = turn.nextQuestionSpec.dimension
          /\ q.difficulty = turn.nextQuestionSpec.targetDifficulty
          /\ q.id \in turn.excludeIds

\* every dimension of the engine's profile is tested
allTested == \A dim \in Dimension : profile.dimensions[dim].tested

\* the first dimension in canonical order that is untested in the engine's profile
isFirstUntested(dim) ==
    /\ ~profile.dimensions[dim].tested
    /\ \A other \in Dimension :
          dimensionIndex(other) < dimensionIndex(dim) => profile.dimensions[other].tested

\* C12: while at least one dimension is untested, selectNextQuestion returns the first
\* untested dimension in canonical order, target difficulty 3 and source bank.
C12_ExplorationOrder ==
    /\ ~allTested =>
          /\ Cardinality(selectNextQuestion(profile)) = 1
          /\ \A result \in selectNextQuestion(profile) :
                /\ isFirstUntested(result.dimension)
                /\ result.targetDifficulty = 3
                /\ result.source = "bank"
    /\ (questionSent /\ ~allTested) => turn.nextQuestionSpec \in selectNextQuestion(profile)

\* C12 witness: the first two dimensions are answered and the third is selected
C12_Witness ==
    /\ submitted /\ questionSent
    /\ profile.dimensions["controlFlow"].tested
    /\ ~profile.dimensions["hardwareIO"].tested
    /\ turn.nextQuestionSpec.dimension = "hardwareIO"
    /\ turn.nextQuestionSpec.targetDifficulty = 3

\* adjustedUncertainty(a) <= adjustedUncertainty(b), as a comparison of fractions
adjustedLeq(a, b) ==
    (range(a) * (a.questionCount + 1) + Scale) * (b.questionCount + 1)
        <= (range(b) * (b.questionCount + 1) + Scale) * (a.questionCount + 1)

\* dim has the largest adjusted uncertainty and is the earliest dimension that has it
isEarliestMostUncertain(dim) ==
    \A other \in Dimension :
        /\ adjustedLeq(profile.dimensions[other], profile.dimensions[dim])
        /\ dimensionIndex(other) < dimensionIndex(dim)
              => ~adjustedLeq(profile.dimensions[dim], profile.dimensions[other])

\* C13: when every dimension is tested, selectNextQuestion returns the dimension with
\* the largest adjusted uncertainty (upperBound - lowerBound) + 1/(questionCount + 1),
\* and the earliest in canonical order of those that tie.
C13_MostUncertain ==
    /\ allTested =>
          /\ Cardinality(selectNextQuestion(profile)) = 1
          /\ \A result \in selectNextQuestion(profile) :
                isEarliestMostUncertain(result.dimension)
    /\ (questionSent /\ allTested) => turn.nextQuestionSpec \in selectNextQuestion(profile)

\* C13 witness: a dimension other than the first is selected while a later dimension
\* has the same adjusted uncertainty in another state
C13_Witness ==
    /\ submitted /\ questionSent /\ allTested
    /\ turn.nextQuestionSpec.dimension # DIMENSIONS[1]
    /\ \E other \in Dimension :
          /\ dimensionIndex(other) > dimensionIndex(turn.nextQuestionSpec.dimension)
          /\ profile.dimensions[other] # profile.dimensions[turn.nextQuestionSpec.dimension]
          /\ adjustedLeq(profile.dimensions[turn.nextQuestionSpec.dimension],
                         profile.dimensions[other])

\* selectNextQuestion was applied by the last step
selected == turn.op = "select" \/ (submitted /\ questionSent)

\* C14: outside exploration selectNextQuestion returns source ai exactly when the chosen
\* dimension's range is <= 2 or its questionCount is >= 3, and source bank otherwise.
C14_SourcePreference ==
    /\ allTested =>
          \A result \in selectNextQuestion(profile) :
              LET dimState == profile.dimensions[result.dimension]
                  narrowOrAsked ==
                      dimState.upperBound - dimState.lowerBound <= 2 * Scale
                          \/ dimState.questionCount >= 3
              IN  /\ result.source \in {"ai", "bank"}
                  /\ result.source = "ai" <=> narrowOrAsked
    /\ (selected /\ allTested) => turn.nextQuestionSpec \in selectNextQuestion(profile)

\* C14 witness: a dimension of range > 2 is selected for its fourth question or later
\* and the source is ai
C14_Witness ==
    /\ selected /\ allTested
    /\ turn.nextQuestionSpec.source = "ai"
    /\ range(profile.dimensions[turn.nextQuestionSpec.dimension]) > 2 * Scale
    /\ profile.dimensions[turn.nextQuestionSpec.dimension].questionCount >= 3

\* C14 witness of a narrow range: a dimension of range <= 2 with fewer than 3 questions
\* is selected and the source is ai
C14_NarrowRange ==
    /\ selected /\ allTested
    /\ turn.nextQuestionSpec.source = "ai"
    /\ range(profile.dimensions[turn.nextQuestionSpec.dimension]) <= 2 * Scale
    /\ profile.dimensions[turn.nextQuestionSpec.dimension].questionCount < 3

\* C14 witness of the other side: a dimension of range > 2 with fewer than 3 questions
\* is selected and the source is bank
C14_BankPreferred ==
    /\ selected /\ allTested
    /\ turn.nextQuestionSpec.source = "bank"

\* every dimension has range <= 0.5 and at least 3 questions
allConvergedAndAsked ==
    \A dim \in Dimension :
        /\ profile.dimensions[dim].upperBound - profile.dimensions[dim].lowerBound
              <= CONVERGENCE_THRESHOLD
        /\ profile.dimensions[dim].questionCount >= 3

C15_Completion ==
    /\ submitted /\ allConvergedAndAsked /\ determinePhase(profile) = "completion"

\* C16: the phase is never stale: the Profile loaded for a session has a currentPhase
\* equal to determinePhase applied to that same Profile.
C16_PhaseFresh ==
    started => loadSessionFromDB.currentPhase = determinePhase(loadSessionFromDB)

\* the state at which C16 fails: an open session past exploration whose stored phase
\* is still exploration
C16_StalePhase ==
    /\ started /\ ~assessment.completed
    /\ loadSessionFromDB.currentPhase = "exploration"
    /\ determinePhase(loadSessionFromDB) = "refinement"

\* the stored phase of a completed session is not a phase determinePhase returns
C16_CompleteNotAPhase ==
    /\ started /\ assessment.completed
    /\ loadSessionFromDB.currentPhase = "complete"

-----------------------------------------------------------------------------
(* Properties of concurrent and failing turns, under SpecTurns *)

\* every request has been answered with success
allDone == \A r \in Requests : requests[r].pc = "done"

\* the session as one turn finds it: the persisted Profile, the stored current
\* question and the ids of the saved responses
afterStart ==
    [profile |-> createStudentProfile, currentQuestion |-> turn.nextQuestion,
     askedQuestions |-> {}]

\* the sessions one whole turn, run alone on session s with the given evaluation,
\* can leave behind
serialTurn(s, evaluation) ==
    LET updatedProfile == answeredProfile(s.profile, responseTo(s.currentQuestion, evaluation))
        asked == s.askedQuestions \cup {s.currentQuestion.id}
    IN  IF shouldCompleteAssessment(updatedProfile)
        THEN {[profile |-> [updatedProfile EXCEPT !.currentPhase = "complete"],
               currentQuestion |-> s.currentQuestion, askedQuestions |-> asked]}
        ELSE {[profile |-> [updatedProfile EXCEPT !.currentPhase = s.profile.currentPhase],
               currentQuestion |-> nextQuestion, askedQuestions |-> asked] :
                 nextQuestion \in UNION {getOrGenerateQuestion(nextQuestionSpec.dimension,
                                             nextQuestionSpec.targetDifficulty, asked) :
                                           nextQuestionSpec \in selectNextQuestion(updatedProfile)}}

\* the persisted Profiles that n turns run one after the other can leave behind,
\* whatever the evaluator returns in each
RECURSIVE serialSessions(_)
serialSessions(n) ==
    IF n = 0
    THEN {afterStart}
    ELSE UNION {serialTurn(s, evaluation) : s \in serialSessions(n - 1),
                                            evaluation \in Evaluations}

serialProfiles == {s.profile : s \in serialSessions(MaxRequests)}

\* C17: when the concurrently submitted answers of a session have all been processed,
\* the persisted Profile (questionsAnswered, bounds, questionsAsked, correctCount,
\* session counters) is one that processing the answers one after the other produces
C17_Serializable ==
    allDone => loadSessionFromDB \in serialProfiles

\* two turns answered with success, one answer counted
C17_LostUpdate ==
    /\ allDone
    /\ assessment.questionsAnswered = 1

\* two correct answers to the same question: two questions asked in the dimension,
\* one correct answer recorded
C17_LostVerdict ==
    /\ allDone
    /\ \A r \in Requests : requests[r].response.correct
    /\ \E dim \in Dimension :
          /\ dimensionStates[dim].questionsAsked = 2
          /\ dimensionStates[dim].correctCount = 1

\* the requests did not overlap: the second loaded what the first left behind
C17_OneAfterTheOther ==
    /\ allDone
    /\ requests[2].profile.questionsAnswered = 1
    /\ requests[2].currentQuestion = requests[1].nextQuestion
    /\ requests[2].profile.dimensions = requests[1].updatedProfile.dimensions
    /\ requests[2].profile.partialCredits = requests[1].updatedProfile.partialCredits

\* request r ran alone and was answered 500
failedAlone(r) ==
    /\ requests[r].pc = "failed"
    /\ \A other \in Requests \ {r} : requests[other].pc = "idle"

\* C18: after a submit turn that ended with an error response because a collaborator
\* call failed, the saved responses and the persisted Profile are what the turn loaded
C18_FailedTurnLeavesProfile ==
    \A r \in Requests :
        failedAlone(r) =>
            /\ seqToSet(questionResponses) = requests[r].askedQuestions
            /\ loadSessionFromDB = requests[r].profile

\* the lookup or generation of the next question failed: the answer is saved and
\* counted, the bounds are moved, and the client got an error
C18_NextQuestionFails ==
    \E r \in Requests :
        /\ failedAlone(r)
        /\ requests[r].collaborator = "nextQuestion"
        /\ requests[r].questionId \in seqToSet(questionResponses)
        /\ loadSessionFromDB.questionsAnswered = requests[r].profile.questionsAnswered + 1
        /\ loadSessionFromDB.dimensions # requests[r].profile.dimensions

\* a store write failed in the middle of the turn: the answer is counted in the
\* session, the DimensionState is the one from before the turn
C18_HalfUpdated ==
    \E r \in Requests :
        /\ failedAlone(r)
        /\ requests[r].collaborator = "store"
        /\ loadSessionFromDB.questionsAnswered = requests[r].profile.questionsAnswered + 1
        /\ loadSessionFromDB.dimensions = requests[r].profile.dimensions

\* the evaluator failed: nothing was written
C18_EvaluatorFails ==
    \E r \in Requests :
        /\ failedAlone(r)
        /\ requests[r].collaborator = "evaluator"
        /\ seqToSet(questionResponses) = requests[r].askedQuestions
        /\ loadSessionFromDB = requests[r].profile

\* updateBounds has been called with the response of request r
scored(r) == "updatedProfile" \in DOMAIN requests[r]

\* C19: a verdict is fed to updateBounds only when the evaluator produced it; when the
\* evaluator's call fails or returns unparseable data the turn fails instead
C19_VerdictFromEvaluator ==
    \A r \in Requests : scored(r) => requests[r].produced

\* the evaluator's answer could not be parsed: the turn succeeds and the bounds are
\* moved by a wrong verdict nobody gave
C19_SubstitutedWrong ==
    \E r \in Requests :
        /\ requests[r].pc = "done"
        /\ \A other \in Requests \ {r} : requests[other].pc = "idle"
        /\ ~requests[r].produced
        /\ isWrong(requests[r].response)
        /\ loadSessionFromDB.dimensions = requests[r].updatedProfile.dimensions
        /\ loadSessionFromDB.dimensions # requests[r].profile.dimensions

\* evaluateWithAI failed: the turn succeeds and partial credit is recorded
C19_SubstitutedPartial ==
    \E r \in Requests :
        /\ requests[r].pc = "done"
        /\ \A other \in Requests \ {r} : requests[other].pc = "idle"
        /\ ~requests[r].produced
        /\ isPartial(requests[r].response)
        /\ loadSessionFromDB.partialCredits = requests[r].profile.partialCredits + 1
        /\ loadSessionFromDB.dimensions # requests[r].profile.dimensions

-----------------------------------------------------------------------------
(* Properties of invalid outcomes, under SpecOutcomes *)

scoredOutcome == last.op = "outcome"

invalidOutcome(question) ==
    \/ question.difficulty \notin DifficultyLevel
    \/ question.dimension \notin Dimension

\* C20: an outcome whose difficulty lies outside 1..5 or whose dimension is not one of
\* the five is rejected with an error, and every DimensionState and counter of the
\* Profile is as it was
C20_InvalidRejected ==
    (scoredOutcome /\ invalidOutcome(last.currentQuestion)) =>
        /\ last.threw
        /\ profile = last.profileBefore

\* a difficulty above the scale is scored: the answer is counted and a correct one
\* lifts the lower bound to the top of the scale
C20_AboveScaleScored ==
    /\ scoredOutcome
    /\ last.currentQuestion.difficulty > 5
    /\ last.response.correct
    /\ ~last.threw
    /\ profile.dimensions[last.response.dimension].questionCount =
          last.profileBefore.dimensions[last.response.dimension].questionCount + 1
    /\ profile.dimensions[last.response.dimension].lowerBound = 5 * Scale

\* a difficulty of 0 is scored as difficulty 3
C20_ZeroScoredAsThree ==
    /\ scoredOutcome
    /\ last.currentQuestion.difficulty = 0
    /\ ~last.threw
    /\ last.response.difficulty = 3
    /\ profile # last.profileBefore

\* an unknown dimension stops updateBounds before it writes
C20_UnknownDimensionThrows ==
    /\ scoredOutcome
    /\ last.currentQuestion.dimension \notin Dimension
    /\ last.threw
    /\ profile = last.profileBefore

-----------------------------------------------------------------------------
(* Properties of a completed session, under Spec *)

\* C21: once the session is completed, no later request changes its dimension bounds
\* and counts, its session counters or its saved responses
C21_CompletedImmutable ==
    [][(started /\ assessment.completed) =>
          /\ dimensionStates' = dimensionStates
          /\ questionResponses' = questionResponses
          /\ assessment'.questionsAnswered = assessment.questionsAnswered
          /\ assessment'.partialCredits = assessment.partialCredits]_vars

\* a submit processed after completion: its answer is saved and counted and it moved
\* the bounds of its dimension
C21_LateSubmitScored ==
    /\ submitted
    /\ turn.late
    /\ assessment.completed
    /\ assessment.questionsAnswered = Len(questionResponses)
    /\ loadSessionFromDB.dimensions[last.response.dimension].lowerBound # last.before.lowerBound

-----------------------------------------------------------------------------
(* Properties of analyzeHintBehavior, under SpecHints *)

analyzed == turn.op = "analyzeHintBehavior"

\* C22: with zero hint events analyzeHintBehavior returns helpSeekingStyle balanced,
\* mostEffectiveHintType none, hintEffectiveness 0, totalHintsUsed 0 and
\* avgTimeToAskHint 0, every quotient having a non-zero divisor
C22_HintDefaults ==
    analyzed =>
        /\ turn.hintProfile.hintEffectiveness.den # 0
        /\ turn.hintProfile.avgTimeToAskHint.den # 0
        /\ Len(hintEvents) = 0 =>
              /\ turn.hintProfile.helpSeekingStyle = "balanced"
              /\ turn.hintProfile.mostEffectiveHintType = "none"
              /\ turn.hintProfile.hintEffectiveness.num = 0
              /\ turn.hintProfile.totalHintsUsed = 0
              /\ turn.hintProfile.avgTimeToAskHint.num = 0

\* C22 witness: the analysis of the empty list
C22_Witness ==
    /\ analyzed
    /\ hintEvents = <<>>
    /\ turn.hintProfile.helpSeekingStyle = "balanced"
    /\ turn.hintProfile.totalHintsUsed = 0

\* the defaults are not what a non-empty list gives
C22_NonDefault ==
    /\ analyzed
    /\ Len(hintEvents) > 0
    /\ turn.hintProfile.helpSeekingStyle # "balanced"
    /\ turn.hintProfile.mostEffectiveHintType # "none"

-----------------------------------------------------------------------------
(* Properties of the counts and of the accuracy read by updateBounds, under SpecBounds *)

\* C23: every updateBounds call sets tested, adds one to questionCount and adds one to
\* correctCount exactly when the verdict is correct; in every state tested holds iff
\* questionCount >= 1, and 0 <= correctCount <= questionCount
C23_Counts ==
    /\ \A dim \in Dimension :
          /\ profile.dimensions[dim].tested <=> profile.dimensions[dim].questionCount >= 1
          /\ 0 <= profile.dimensions[dim].correctCount
          /\ profile.dimensions[dim].correctCount <= profile.dimensions[dim].questionCount
    /\ called =>
          /\ after.tested
          /\ after.questionCount = last.before.questionCount + 1
          /\ after.correctCount =
                last.before.correctCount + (IF last.response.correct THEN 1 ELSE 0)

\* C23 witness: partial credit on a dimension with correct answers is counted as a
\* question and not as a correct answer
C23_Witness ==
    /\ called /\ isPartial(last.response)
    /\ last.before.correctCount >= 1
    /\ after.questionCount = last.before.questionCount + 1
    /\ after.correctCount = last.before.correctCount

\* C24: the accuracy compared with 0.6, 0.7 and 0.4 is correctCount/questionCount from
\* before the answer was counted (0.5 with no prior question): a correct answer raises
\* upperBound above lowerBound only at prior accuracy > 0.6, a wrong answer lowers
\* lowerBound only at prior accuracy < 0.4 and caps upperBound at
\* max(lowerBound, d - 0.5) unless the prior accuracy is > 0.7; the first answer in a
\* dimension never raises upperBound, is never lenient and never lowers lowerBound
C24_PriorAccuracy ==
    called =>
        LET d == last.response.difficulty * Scale
        IN  /\ (last.response.correct /\ after.upperBound > last.before.upperBound
                    /\ after.upperBound > after.lowerBound)
                => accuracyAbove(last.before, 6)
            /\ (isWrong(last.response) /\ after.lowerBound < last.before.lowerBound)
                => accuracyBelow(last.before, 4)
            /\ (isWrong(last.response) /\ ~accuracyAbove(last.before, 7))
                => after.upperBound <= Max(last.before.lowerBound, d - Tenths(5))
            /\ last.before.questionCount = 0
                => /\ ~accuracyAbove(last.before, 6)
                   /\ ~accuracyAbove(last.before, 7)
                   /\ ~accuracyBelow(last.before, 4)
                   /\ after.upperBound <= last.before.upperBound
                   /\ after.lowerBound >= last.before.lowerBound
                   /\ isWrong(last.response)
                        => after.upperBound <= Max(last.before.lowerBound, d - Tenths(5))

\* C24 witness: a correct answer at prior accuracy 1/2; counted, the accuracy would be
\* 2/3 and upperBound d + 1.5, and upperBound is left where it was
C24_Witness ==
    /\ called /\ last.response.correct
    /\ ~accuracyAbove(last.before, 6)
    /\ accuracyAbove(after, 6)
    /\ last.before.upperBound < Min(5 * Scale, last.response.difficulty * Scale + Tenths(15))
    /\ after.lowerBound < last.before.upperBound
    /\ after.upperBound = last.before.upperBound

\* a wrong answer at prior accuracy 3/4, which is 3/5 once counted, is treated leniently
C24_LenientOnPrior ==
    /\ called /\ isWrong(last.response)
    /\ accuracyAbove(last.before, 7)
    /\ ~accuracyAbove(after, 7)
    /\ after.questionCount >= 3
    /\ after.upperBound > Max(last.before.lowerBound,
                              last.response.difficulty * Scale - Tenths(5))

\* C25: when the verdict rule and the clamp leave lowerBound > upperBound, after a
\* correct answer the raised lowerBound is kept and upperBound is moved up to it, after
\* a partial or wrong answer the lowered upperBound is kept and lowerBound is moved down
\* to it; the resulting range is 0
C25_InversionResolved ==
    (called /\ beforeResolution.lowerBound > beforeResolution.upperBound) =>
        /\ range(after) = 0
        /\ IF last.response.correct
           THEN /\ after.lowerBound = beforeResolution.lowerBound
                /\ after.upperBound > beforeResolution.upperBound
           ELSE /\ after.upperBound = beforeResolution.upperBound
                /\ after.lowerBound < beforeResolution.lowerBound

\* C25 witness: a correct answer above the upper bound; upperBound is moved up to the
\* raised lowerBound d - 0.3
C25_Witness ==
    /\ called /\ last.response.correct
    /\ beforeResolution.lowerBound > beforeResolution.upperBound
    /\ after.lowerBound = last.response.difficulty * Scale - Tenths(3)
    /\ after.upperBound = after.lowerBound
    /\ after.upperBound > last.before.upperBound

\* partial credit below the lower bound; lowerBound is moved down to the lowered
\* upperBound d + 0.5
C25_NotCorrect ==
    /\ called /\ isPartial(last.response)
    /\ beforeResolution.lowerBound > beforeResolution.upperBound
    /\ after.upperBound = last.response.difficulty * Scale + Tenths(5)
    /\ after.lowerBound = after.upperBound
    /\ after.lowerBound < last.before.lowerBound

\* the low-accuracy path of a wrong answer pulled lowerBound down
pulledDown ==
    /\ isWrong(last.response)
    /\ accuracyBelow(last.before, 4)
    /\ after.lowerBound < last.before.lowerBound

\* a correct answer at prior accuracy > 0.6 pushed upperBound up
pushedUp ==
    /\ last.response.correct
    /\ accuracyAbove(last.before, 6)
    /\ after.upperBound > last.before.upperBound

\* C26 (as claimed): the range upperBound - lowerBound never increases across an
\* updateBounds call, except when a wrong answer at prior accuracy < 0.4 pulls
\* lowerBound down
C26_RangeNeverWidens ==
    called => (range(after) <= range(last.before) \/ pulledDown)

\* C26 (amended): the range never increases across an updateBounds call, except when a
\* wrong answer at prior accuracy < 0.4 pulls lowerBound down or a correct answer at
\* prior accuracy > 0.6 pushes upperBound up
C26_RangeAmended ==
    called => (range(after) <= range(last.before) \/ pulledDown \/ pushedUp)

\* C26 witness: a correct answer at prior accuracy > 0.6 widened the range
C26_Witness ==
    /\ called
    /\ pushedUp
    /\ range(after) > range(last.before)

\* the exception of the claim: a wrong answer at prior accuracy < 0.4 widened the range
C26_WidenedByWrong ==
    /\ called
    /\ pulledDown
    /\ range(after) > range(last.before)

\* C27: the bounds move the way the verdict points: a correct answer never decreases
\* lowerBound or upperBound, a wrong answer never increases lowerBound or upperBound,
\* the inversion step included
C27_DirectionFollowsVerdict ==
    called =>
        /\ last.response.correct =>
              /\ after.lowerBound >= last.before.lowerBound
              /\ after.upperBound >= last.before.upperBound
        /\ isWrong(last.response) =>
              /\ after.lowerBound <= last.before.lowerBound
              /\ after.upperBound <= last.before.upperBound

\* C27 witness: a correct answer whose inversion step moved upperBound, upwards
C27_Witness ==
    /\ called /\ last.response.correct
    /\ beforeResolution.lowerBound > beforeResolution.upperBound
    /\ after.lowerBound > last.before.lowerBound
    /\ after.upperBound > last.before.upperBound

\* a wrong answer moved both bounds, downwards
C27_WrongLowersBoth ==
    /\ called /\ isWrong(last.response)
    /\ after.lowerBound < last.before.lowerBound
    /\ after.upperBound < last.before.upperBound

-----------------------------------------------------------------------------
(* Properties of the frame of updateBounds, under SpecSelect *)

\* C28: updateBounds changes only the DimensionState of the dimension named in the
\* response: the other four DimensionStates and the session counters questionsAnswered,
\* totalTimeMs, hintsUsed and partialCredits are as before the call
C28_Frame ==
    [][/\ \A other \in Dimension \ {last'.response.dimension} :
             profile'.dimensions[other] = profile.dimensions[other]
       /\ profile'.questionsAnswered = profile.questionsAnswered
       /\ profile'.totalTimeMs = profile.totalTimeMs
       /\ profile'.hintsUsed = profile.hintsUsed
       /\ profile'.partialCredits = profile.partialCredits]_vars

\* C28 witness: a call changed the bounds of its dimension while the other four
\* dimensions hold answers of their own
C28_Witness ==
    /\ called
    /\ after.lowerBound # last.before.lowerBound
    /\ after.upperBound # last.before.upperBound
    /\ \A other \in Dimension \ {last.response.dimension} :
          /\ profile.dimensions[other].questionCount = 1
          /\ profile.dimensions[other] # initialDimState

-----------------------------------------------------------------------------
(* Properties of the object passed to updateBounds, under SpecBounds *)

\* C29: updateBounds leaves the Profile object passed in, the targeted dimension's
\* bounds and counts included, exactly as it was before the call
C29_ArgumentUntouched ==
    called => last.argument = last.passed

\* after the call the object passed in carries the counted answer and the moved bounds
\* of the returned Profile
C29_ArgumentMutated ==
    /\ called
    /\ last.argument.dimensions[last.response.dimension] = after
    /\ last.argument.dimensions[last.response.dimension].questionCount
          = last.passed.dimensions[last.response.dimension].questionCount + 1
    /\ last.argument.dimensions[last.response.dimension].lowerBound
          # last.passed.dimensions[last.response.dimension].lowerBound

-----------------------------------------------------------------------------
(* Properties of the choice of selectNextQuestion, under Spec *)

\* C30: on every reachable Profile, one in the completion phase included, any two
\* results of selectNextQuestion have the same dimension, target difficulty and source,
\* and findMostUncertainDimension returns a dimension, never null, so the branch that
\* draws a random dimension is not taken
C30_Deterministic ==
    /\ \A one, other \in selectNextQuestion(profile) :
          /\ one.dimension = other.dimension
          /\ one.targetDifficulty = other.targetDifficulty
          /\ one.source = other.source
    /\ findMostUncertainDimension(profile) # "null"
    /\ allTested =>
          \A result \in selectNextQuestion(profile) :
              result.dimension = findMostUncertainDimension(profile)

\* a completed session whose five dimensions are all converged: the profile the final
\* verification was written for, and a dimension is still found
C30_Witness ==
    /\ started
    /\ assessment.completed
    /\ allConvergedAndAsked
    /\ selectNextQuestion(profile)
          = {[dimension |-> findMostUncertainDimension(profile),
              targetDifficulty |->
                  clampDifficulty(Scale * Round((profile.dimensions[findMostUncertainDimension(profile)].lowerBound
                      + profile.dimensions[findMostUncertainDimension(profile)].upperBound) \div 2)),
              source |-> "ai",
              questionType |-> getQuestionTypeForDimension(findMostUncertainDimension(profile), "refinement")]}

\* every dimension of a profile has range 0
C30_AllRangesZero ==
    /\ allTested
    /\ \A dim \in Dimension : range(profile.dimensions[dim]) = 0

-----------------------------------------------------------------------------
(* Properties of the target difficulty, under SpecSelect *)

\* lowerBound + upperBound of the dimension selectNextQuestion chose: twice the midpoint
twiceMidpoint ==
    profile.dimensions[turn.nextQuestionSpec.dimension].lowerBound
        + profile.dimensions[turn.nextQuestionSpec.dimension].upperBound

\* C31: outside exploration the target difficulty selectNextQuestion returns is an
\* integer in 1..5 that is the midpoint of the chosen dimension's bounds rounded to the
\* nearest integer, a half rounding up, so it is within 0.5 of the midpoint
C31_TargetIsRoundedMidpoint ==
    (turn.op = "select" /\ allTested) =>
        /\ turn.nextQuestionSpec.targetDifficulty \in 1..5
        /\ 2 * Scale * turn.nextQuestionSpec.targetDifficulty - Scale <= twiceMidpoint
        /\ twiceMidpoint < 2 * Scale * turn.nextQuestionSpec.targetDifficulty + Scale

\* a midpoint that lies exactly on a half and is rounded up
C31_Witness ==
    /\ turn.op = "select"
    /\ allTested
    /\ twiceMidpoint = 2 * Scale * turn.nextQuestionSpec.targetDifficulty - Scale
    /\ turn.nextQuestionSpec.dimension = last.response.dimension

\* a midpoint strictly between two levels and above the target
C31_RoundedDown ==
    /\ turn.op = "select"
    /\ allTested
    /\ twiceMidpoint > 2 * Scale * turn.nextQuestionSpec.targetDifficulty

-----------------------------------------------------------------------------
(* Properties of the exploration turns, under Spec and SpecTurns *)

\* no submit request is in flight: the store is as a next turn finds it
betweenTurns == \A r \in Requests : requests[r].pc \in {"idle", "done", "failed"}

\* C32: in every Profile reachable through the submit loop, every dimension tested
\* implies questionsAnswered >= 5, so selectNextQuestion takes its exploration branch
\* exactly when determinePhase returns exploration; the first five turns probe the five
\* dimensions once each in canonical order, and exploration is not re-entered
C32_ExplorationAgrees ==
    (started /\ betweenTurns) =>
        LET p == loadSessionFromDB
        IN  /\ (\A dim \in Dimension : p.dimensions[dim].tested) => p.questionsAnswered >= 5
            /\ Len(untestedDimensions(p)) > 0 <=> determinePhase(p) = "exploration"
            /\ p.questionsAnswered <= 5 =>
                   \A i \in 1..Len(DIMENSIONS) :
                       p.dimensions[DIMENSIONS[i]].questionCount
                           = IF i <= p.questionsAnswered THEN 1 ELSE 0
            /\ p.questionsAnswered >= 5 => determinePhase(p) # "exploration"

\* a turn that failed while fetching the next question and the retry of the same
\* question: the first two turns both probed the first dimension
C32_RetryProbesAgain ==
    /\ requests[1].pc = "failed"
    /\ requests[1].failedAt = "persisted"
    /\ requests[2].pc = "done"
    /\ requests[2].questionId = requests[1].questionId
    /\ loadSessionFromDB.questionsAnswered = 2
    /\ loadSessionFromDB.dimensions[DIMENSIONS[1]].questionCount = 2
    /\ ~loadSessionFromDB.dimensions[DIMENSIONS[2]].tested

\* one turn after the other and none failing: the five dimensions have one answer each
\* after five turns
C32_FiveProbed ==
    /\ started
    /\ loadSessionFromDB.questionsAnswered = 5
    /\ \A dim \in Dimension : loadSessionFromDB.dimensions[dim].questionCount = 1

-----------------------------------------------------------------------------
(* Properties of the counts of a session, under Spec and SpecTurns *)

\* questionsAsked summed over the first i dimension rows
RECURSIVE questionsAskedUpTo(_)
questionsAskedUpTo(i) ==
    IF i = 0 THEN 0
    ELSE questionsAskedUpTo(i - 1) + dimensionStates[DIMENSIONS[i]].questionsAsked

\* C33: in every persisted state between turns the questionsAsked of the five dimensions
\* sum to the session's questionsAnswered, which is the number of saved responses
C33_CountsAgree ==
    (started /\ betweenTurns) =>
        /\ questionsAskedUpTo(Len(DIMENSIONS)) = assessment.questionsAnswered
        /\ assessment.questionsAnswered = Len(questionResponses)

\* two overlapping turns that both answered 200: two responses saved and two answers
\* counted in the dimension, one counted in the session
C33_SessionCountBehind ==
    /\ allDone
    /\ Len(questionResponses) = 2
    /\ questionsAskedUpTo(Len(DIMENSIONS)) = 2
    /\ assessment.questionsAnswered = 1

\* turns one after the other: the three counts agree on a session with answers in
\* every dimension
C33_CountsAgreeSerially ==
    /\ started
    /\ allTested
    /\ questionsAskedUpTo(Len(DIMENSIONS)) = assessment.questionsAnswered
    /\ assessment.questionsAnswered = Len(questionResponses)
    /\ Len(questionResponses) > Len(DIMENSIONS)

-----------------------------------------------------------------------------
(* Properties of what a submit turn scores, under SpecTurns *)

\* the positions of the handler after incrementQuestionsAnswered has written
countedPositions == {"counted", "bounding", "bounded", "persisted", "chosen", "done"}

\* request r has counted its answer in the session
counted(r) ==
    \/ requests[r].pc \in countedPositions
    \/ requests[r].pc = "failed" /\ requests[r].failedAt \in countedPositions

\* C34: a question is scored at most once and against itself: the verdict a submit turn
\* applies is for the question whose id was submitted, and a second submit of the same
\* questionId, such as a retry after an error response, is not counted or applied again
C34_ScoredOnceAgainstItself ==
    /\ \A r \in Requests :
          scored(r) => requests[r].currentQuestion.id = requests[r].questionId
    /\ \A r, retry \in Requests :
          (r # retry /\ counted(r) /\ counted(retry))
              => requests[r].questionId # requests[retry].questionId

\* a submit that names the first question after the second became current: the answer
\* is scored against the second question and saved under the id of the first
C34_ScoredAgainstAnother ==
    \E r \in Requests :
        /\ requests[r].pc = "done"
        /\ requests[r].questionId = presented[1]
        /\ requests[r].currentQuestion.id = presented[2]
        /\ requests[r].response.dimension = DIMENSIONS[2]
        /\ questionResponses = <<presented[1], presented[1]>>

\* the retry of a question whose turn answered 500 after its writes: counted twice
C34_RetryCountedTwice ==
    /\ requests[1].pc = "failed"
    /\ counted(1)
    /\ requests[2].pc = "done"
    /\ requests[2].questionId = requests[1].questionId
    /\ requests[2].currentQuestion.id = requests[1].currentQuestion.id
    /\ requests[2].profile.questionsAnswered = 1
    /\ assessment.questionsAnswered = 2

-----------------------------------------------------------------------------
(* Properties of the earliest completion, under Spec *)

\* the documented minimum of a session: 5 exploration questions and 3 per dimension
minimumQuestions == EXPLORATION_QUESTIONS_MIN + Len(DIMENSIONS) * MIN_QUESTIONS_PER_DIMENSION

\* C35: no assessment completes before 20 questions are answered: in every turn of the
\* submit loop with questionsAnswered < 20 shouldCompleteAssessment is false
C35_NoEarlyCompletion ==
    (submitted /\ profile.questionsAnswered < minimumQuestions)
        => /\ ~shouldCompleteAssessment(profile)
           /\ ~turn.shouldComplete
           /\ ~assessment.completed

\* a session of an open assessment that completed at its 15th answer: every dimension
\* converged after three answers and the phase rule returned true
C35_CompletedAtFifteen ==
    /\ submitted
    /\ ~turn.late
    /\ turn.shouldComplete
    /\ assessment.completed
    /\ profile.questionsAnswered = Len(DIMENSIONS) * MIN_QUESTIONS_PER_DIMENSION
    /\ profile.currentPhase = "completion"
    /\ Len(questionResponses) = profile.questionsAnswered

-----------------------------------------------------------------------------
(* Properties of the hint events and the session counters, under SpecHintTurns *)

\* C36: the outcome of a HintEvent is empty from its creation until the submit turn
\* that answers its question; that turn sets it once, to answered_correctly iff its
\* verdict is correct and to answered_wrong otherwise, and no later turn changes it
C36_OutcomeSetOnce ==
    [][/\ \A i \in 1..Len(hintEvents) :
             /\ hintEvents[i].subsequentAction # "null"
                   => hintEvents'[i].subsequentAction = hintEvents[i].subsequentAction
             /\ hintEvents'[i].subsequentAction # hintEvents[i].subsequentAction
                   => \E r \in Requests :
                         /\ requests[r].pc = "linking"
                         /\ requests[r].questionId = hintEvents[i].questionId
                         /\ hintEvents'[i].subsequentAction = outcomeOf(requests[r].response)
       /\ \A i \in (Len(hintEvents) + 1)..Len(hintEvents') :
             hintEvents'[i].subsequentAction = "null"]_vars

\* two overlapping submit turns of the hinted question with different verdicts: both
\* read the event without outcome and both wrote it, the second over the first
C36_OutcomeRewritten ==
    /\ Len(hintEvents) = 1
    /\ \A r \in Requests :
          /\ requests[r].pc = "done"
          /\ requests[r].questionId = hintEvents[1].questionId
          /\ requests[r].questionHints = <<[id |-> 1, subsequentAction |-> "null"]>>
    /\ requests[1].response.correct
    /\ ~requests[2].response.correct
    /\ hintEvents[1].subsequentAction = "answered_wrong"
    /\ hintEvents[1].questionResponseId = requests[2].savedResponse

\* one submit turn after the hint: the outcome is set from the verdict
C36_OutcomeSet ==
    /\ Len(hintEvents) = 1
    /\ requests[1].pc = "done"
    /\ requests[2].pc = "idle"
    /\ requests[1].response.correct
    /\ hintEvents[1].subsequentAction = "answered_correctly"

\* no request is in flight
noRequestInFlight ==
    \A r \in Requests \cup HintRequests :
        requests[r].pc \in {"idle", "done", "failed", "notFound"}

\* request r has saved its response
responded(r) == "savedResponse" \in DOMAIN requests[r]

\* timeSpentMs summed over the responses saved by the first n requests
RECURSIVE timeSpentUpTo(_)
timeSpentUpTo(n) ==
    IF n = 0 THEN 0
    ELSE timeSpentUpTo(n - 1) + (IF responded(n) THEN requests[n].timeSpentMs ELSE 0)

\* C37: under any interleaving of the hint requests and the submit turns of a session
\* the persisted counters are the aggregates of the recorded events: hintsUsed is the
\* number of HintEvents saved, totalTimeMs the sum of timeSpentMs over the saved
\* responses and partialCredits the number of partial verdicts
C37_CountersAreAggregates ==
    (started /\ noRequestInFlight) =>
        /\ assessment.hintsUsed = Len(hintEvents)
        /\ assessment.totalTimeMs = timeSpentUpTo(MaxRequests)
        /\ assessment.partialCredits
              = Cardinality({r \in Requests : responded(r) /\ requests[r].response.partial})

\* a hint answered and counted, then the submit of the question with the client's
\* hintsUsed = 1: one HintEvent and hintsUsed = 2
C37_HintCountedTwice ==
    /\ noRequestInFlight
    /\ \A h \in HintRequests : requests[h].pc = "done"
    /\ Len(hintEvents) = MaxHintRequests
    /\ requests[1].pc = "done"
    /\ requests[2].pc = "idle"
    /\ requests[1].profile.hintsUsed = MaxHintRequests
    /\ requests[1].hintsUsed = MaxHintRequests
    /\ assessment.hintsUsed = 2 * MaxHintRequests

\* a hint request that loaded the session before a submit turn wrote its metrics and
\* counted the hint after: the time and the partial credit of the answer are gone
C37_HintOverwritesSubmit ==
    /\ noRequestInFlight
    /\ requests[1].pc = "done"
    /\ requests[1].response.partial
    /\ requests[2].pc = "idle"
    /\ \E h \in HintRequests : requests[h].pc = "done"
    /\ assessment.totalTimeMs = 0
    /\ assessment.partialCredits = 0
    /\ Len(questionResponses) = 1

-----------------------------------------------------------------------------
(* Properties of the hint effectiveness, under SpecHints *)

\* the events of a hint type in the analyzed list, and those followed by a correct answer
eventsOfType(hintType) == {i \in 1..Len(hintEvents) : hintEvents[i].hintType = hintType}

correctOfType(hintType) ==
    {i \in eventsOfType(hintType) : hintEvents[i].subsequentAction = "answered_correctly"}

\* C38: for a non-empty list of HintEvents hintEffectiveness is the number of events
\* answered_correctly divided by the number of events, a value in [0,1], and
\* mostEffectiveHintType is a category whose success rate, correct over total of the
\* category, is maximal; it is none exactly when hintEffectiveness is 0
C38_Effectiveness ==
    (analyzed /\ Len(hintEvents) > 0) =>
        LET hintProfile == turn.hintProfile
            answered == {i \in 1..Len(hintEvents) :
                            hintEvents[i].subsequentAction = "answered_correctly"}
        IN  /\ hintProfile.hintEffectiveness.num = Cardinality(answered)
            /\ hintProfile.hintEffectiveness.den = Len(hintEvents)
            /\ 0 <= hintProfile.hintEffectiveness.num
            /\ hintProfile.hintEffectiveness.num <= hintProfile.hintEffectiveness.den
            /\ hintProfile.mostEffectiveHintType = "none"
                  <=> hintProfile.hintEffectiveness.num = 0
            /\ hintProfile.mostEffectiveHintType # "none" =>
                  /\ eventsOfType(hintProfile.mostEffectiveHintType) # {}
                  /\ \A other \in HintTypes :
                        Cardinality(correctOfType(other))
                            * Cardinality(eventsOfType(hintProfile.mostEffectiveHintType))
                          <= Cardinality(correctOfType(hintProfile.mostEffectiveHintType))
                               * Cardinality(eventsOfType(other))

\* the most effective category is not the first one used, and another category has a
\* lower success rate that is not 0
C38_Witness ==
    /\ analyzed
    /\ Len(hintEvents) = MaxHintEvents
    /\ turn.hintProfile.mostEffectiveHintType # "none"
    /\ turn.hintProfile.mostEffectiveHintType # hintEvents[1].hintType
    /\ correctOfType(hintEvents[1].hintType) # {}
    /\ turn.hintProfile.hintEffectiveness.num < turn.hintProfile.hintEffectiveness.den

\* hints were used and none was followed by a correct answer
C38_NoneEffective ==
    /\ analyzed
    /\ Len(hintEvents) = MaxHintEvents
    /\ turn.hintProfile.mostEffectiveHintType = "none"
    /\ turn.hintProfile.hintEffectiveness.num = 0

====
